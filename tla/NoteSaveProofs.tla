---------------------------- MODULE NoteSaveProofs ----------------------------
(***************************************************************************)
(* Theorems about NoteSave, for any number of editors, requests and texts, *)
(* whatever people type while saves are under way and whoever writes       *)
(* between a commit and its answer.  All rest on one fact: a request that  *)
(* took the row holds its lock until it has committed, and unless it had   *)
(* loaded the note before, the text it composes with is the row's.  What   *)
(* the editors promise needs more: Known says where the words that count   *)
(* as saved have been, Based what a base_updated_at vouches for, wherever  *)
(* it has got to.                                                          *)
(***************************************************************************)
EXTENDS NoteSave, SequenceTheorems, TLAPS

HolderKnowsTheRow ==
    \A j \in Job :
        job[j].at = "locked" =>
            /\ lock = j
            /\ ~LoadsFirst(job[j].kind) => job[j].content = row.content

Inv == TypeOK /\ HolderKnowsTheRow

-----------------------------------------------------------------------------
(* Types.                                                                  *)

LEMMA IdleType == Idle \in JobRecord /\ Idle.at = "idle"
  BY DEF Idle, JobRecord, Kinds, Places, Bases, Text

LEMMA RequestType ==
    ASSUME NEW kind \in Kinds, NEW by \in Editor \cup {Nobody}, NEW text \in Text,
           NEW base \in Nat, NEW came \in Bases
    PROVE  /\ Request(kind, by, text, base, came) \in JobRecord
           /\ Request(kind, by, text, base, came).at = "sent"
  BY DEF Request, JobRecord, Places, Answers, Text

(* What is written to a request under way keeps its type. *)
LEMMA JobWrites ==
    ASSUME NEW r \in JobRecord, NEW place \in Places
    PROVE  /\ [r EXCEPT !.at = place] \in JobRecord
           /\ [r EXCEPT !.by = Nobody] \in JobRecord
           /\ \A n \in Nat : [r EXCEPT !.at = place, !.stamp = n] \in JobRecord
           /\ \A c \in Text, n \in Nat :
                /\ [r EXCEPT !.at = place, !.content = c, !.stamp = n] \in JobRecord
                /\ [r EXCEPT !.content = c, !.stamp = n, !.at = place] \in JobRecord
  BY DEF JobRecord

(* What is written to an editor keeps its type. *)
LEMMA EditorWrites ==
    ASSUME NEW r \in EditorRecord
    PROVE  /\ \A c \in Text : [r EXCEPT !.draft = c, !.timer = TRUE] \in EditorRecord
           /\ [r EXCEPT !.timer = FALSE] \in EditorRecord
           /\ [r EXCEPT !.open = FALSE, !.timer = FALSE] \in EditorRecord
           /\ [r EXCEPT !.open = FALSE] \in EditorRecord
           /\ \A k \in 0 .. 2 : [r EXCEPT !.retries = k] \in EditorRecord
           /\ \A k \in 0 .. 2, n \in Nat :
                [r EXCEPT !.retries = k, !.base = n, !.came = "conflict"] \in EditorRecord
           /\ \A c, p \in Text, n \in Nat, b \in Bases :
                [r EXCEPT !.saved = c, !.base = n, !.retries = 0, !.came = b, !.presumed = p]
                      \in EditorRecord
           /\ \A c \in Text, n \in Nat :
                [r EXCEPT !.draft = c, !.saved = c, !.base = n, !.timer = FALSE,
                          !.came = "text"] \in EditorRecord
<1>0. "text" \in Bases /\ "conflict" \in Bases
  BY DEF Bases
<1>1. \A c \in Text : [r EXCEPT !.draft = c, !.timer = TRUE] \in EditorRecord
  BY DEF EditorRecord
<1>2. /\ [r EXCEPT !.timer = FALSE] \in EditorRecord
      /\ [r EXCEPT !.open = FALSE, !.timer = FALSE] \in EditorRecord
      /\ [r EXCEPT !.open = FALSE] \in EditorRecord
  BY DEF EditorRecord
<1>3. \A k \in 0 .. 2 : [r EXCEPT !.retries = k] \in EditorRecord
  BY DEF EditorRecord
<1>4. \A k \in 0 .. 2, n \in Nat :
        [r EXCEPT !.retries = k, !.base = n, !.came = "conflict"] \in EditorRecord
  BY <1>0 DEF EditorRecord
<1>5. \A c, p \in Text, n \in Nat, b \in Bases :
        [r EXCEPT !.saved = c, !.base = n, !.retries = 0, !.came = b, !.presumed = p]
          \in EditorRecord
  <2>1. \A c, p \in Text, n \in Nat, k \in 0 .. 2, b \in Bases :
          [r EXCEPT !.saved = c, !.base = n, !.retries = k, !.came = b, !.presumed = p]
            \in EditorRecord
    BY DEF EditorRecord
  <2>2. 0 \in 0 .. 2
    OBVIOUS
  <2> QED
    BY <2>1, <2>2
<1>6. \A c \in Text, n \in Nat :
        [r EXCEPT !.draft = c, !.saved = c, !.base = n, !.timer = FALSE, !.came = "text"]
          \in EditorRecord
  BY <1>0 DEF EditorRecord
<1> QED
  BY <1>1, <1>2, <1>3, <1>4, <1>5, <1>6

LEMMA SaveOfType ==
    ASSUME TypeOK, NEW e \in Editor, NEW by \in Editor \cup {Nobody}
    PROVE  SaveOf(e, by) \in JobRecord /\ SaveOf(e, by).at = "sent"
<1>1. editor[e] \in EditorRecord
  BY DEF TypeOK
<1>2. /\ editor[e].draft \in Text
      /\ editor[e].base \in Nat
      /\ editor[e].came \in Bases
  BY <1>1 DEF EditorRecord
<1>3. "save" \in Kinds
  BY DEF Kinds
<1>4. LET r == Request("save", by, editor[e].draft, editor[e].base, editor[e].came)
      IN  r \in JobRecord /\ r.at = "sent"
  BY <1>2, <1>3, RequestType
<1> QED
  BY <1>4 DEF SaveOf

(* A GET takes the place of an older one; no request is taken further.     *)
LEMMA WithFetchType ==
    ASSUME NEW jobs \in [Job -> JobRecord], NEW e \in Editor, NEW k \in Job
    PROVE  /\ WithFetch(jobs, e, k) \in [Job -> JobRecord]
           /\ \A i \in Job : WithFetch(jobs, e, k)[i].at = "locked" =>
                                WithFetch(jobs, e, k)[i] = jobs[i]
<1>1. Request("fetch", e, {}, 0, "text") \in JobRecord
      /\ Request("fetch", e, {}, 0, "text").at = "sent"
  BY RequestType DEF Kinds, Bases, Text
<1> QED
  BY <1>1, IdleType DEF WithFetch

(* The text a request writes. *)
LEMMA NewTextType ==
    ASSUME TypeOK, NEW j \in Job
    PROVE  NewText(j) \in Text
<1>1. job[j] \in JobRecord
  BY DEF TypeOK
<1>2. job[j].text \in Text /\ job[j].content \in Text
  BY <1>1 DEF JobRecord
<1> QED
  BY <1>2 DEF NewText, Text

(* The history keeps its type and its limit when a text is added. *)
LEMMA PrunedType ==
    ASSUME NEW s \in Seq(Text), Len(s) <= Kept, NEW t \in Text
    PROVE  /\ Pruned(Append(s, t)) \in Seq(Text)
           /\ Len(Pruned(Append(s, t))) <= Kept
           /\ \E i \in DOMAIN Pruned(Append(s, t)) : Pruned(Append(s, t))[i] = t
<1> DEFINE a == Append(s, t)
<1>1. /\ a \in Seq(Text) /\ Len(a) = Len(s) + 1 /\ a[Len(a)] = t
      /\ Len(s) \in Nat /\ Kept \in Nat \ {0}
  BY AppendProperties, LenProperties, SaveBounds
<1>2. CASE Len(a) > Kept
  <2>1. Tail(a) \in Seq(Text) /\ Len(Tail(a)) = Len(a) - 1
        /\ \A i \in 1 .. Len(Tail(a)) : Tail(a)[i] = a[i + 1]
    BY <1>1, <1>2, HeadTailProperties, EmptySeq
  <2>2. Len(Tail(a)) \in 1 .. Len(Tail(a)) /\ Tail(a)[Len(Tail(a))] = t
    BY <1>1, <1>2, <2>1
  <2>3. Len(Tail(a)) \in DOMAIN Tail(a)
    BY <2>1, <2>2, LenProperties
  <2>4. Pruned(a) = Tail(a)
    BY <1>2 DEF Pruned
  <2>5. Len(Tail(a)) <= Kept
    BY <1>1, <2>1
  <2> QED
    BY <2>1, <2>2, <2>3, <2>4, <2>5
<1>3. CASE ~(Len(a) > Kept)
  <2>1. Len(a) \in DOMAIN a
    BY <1>1
  <2> QED
    BY <1>1, <1>3, <2>1 DEF Pruned
<1> QED
  BY <1>2, <1>3

-----------------------------------------------------------------------------
(* Steps that leave the database alone and take no request further.        *)

NobodyTakes ==
    \A i \in Job : job'[i].at = "locked" =>
        /\ job[i].at = "locked"
        /\ job'[i].kind = job[i].kind /\ job'[i].content = job[i].content

LEMMA AloneKeepsHolders ==
    ASSUME HolderKnowsTheRow, NobodyTakes, UNCHANGED <<row, lock>>
    PROVE  HolderKnowsTheRow'
  BY DEF HolderKnowsTheRow, NobodyTakes, LoadsFirst

LEMMA InvInit == Init => Inv
<1> SUFFICES ASSUME Init PROVE Inv
  OBVIOUS
<1>1. row \in [content : Text, stamp : Nat] /\ versions \in Seq(Text) /\ Len(versions) <= Kept
  BY SaveBounds, EmptySeq DEF Init, Text
<1>2. editor \in [Editor -> EditorRecord]
  BY DEF Init, EditorRecord, Bases, Text
<1>3. job \in [Job -> JobRecord] /\ HolderKnowsTheRow
  BY IdleType DEF Init, HolderKnowsTheRow
<1>4. young \in BOOLEAN /\ lock \in Job \cup {Nobody} /\ used \in Text /\ stored \in Text
  BY DEF Init, Text
<1>5. asked \in 0 .. MaxRare /\ lost \in 0 .. MaxRare
  BY SaveBounds DEF Init
<1> QED
  BY <1>1, <1>2, <1>3, <1>4, <1>5 DEF Inv, TypeOK

(* An editor's own steps. *)
LEMMA EditorTypes ==
    ASSUME TypeOK, NEW e \in Editor, NEW r \in EditorRecord, NEW f, f = [editor EXCEPT ![e] = r]
    PROVE  f \in [Editor -> EditorRecord]
  BY DEF TypeOK

LEMMA JobTypes ==
    ASSUME TypeOK, NEW j \in Job, NEW r \in JobRecord, r.at # "locked", NEW f,
           f = [job EXCEPT ![j] = r], job' = f
    PROVE  /\ job' \in [Job -> JobRecord]
           /\ NobodyTakes
  BY DEF TypeOK, NobodyTakes

Apart == UNCHANGED <<row, versions, young, lock, stored>>

(* Of a step outside the database only the jobs, the editors, the marks in *)
(* use and the counters have to be looked at.                              *)
LEMMA ApartStep ==
    ASSUME Inv, Apart, NobodyTakes, job' \in [Job -> JobRecord],
           editor' \in [Editor -> EditorRecord], used' \in Text,
           asked' \in 0 .. MaxRare, lost' \in 0 .. MaxRare
    PROVE  Inv'
<1>1. HolderKnowsTheRow'
  BY AloneKeepsHolders DEF Inv, Apart
<1>2. TypeOK'
  BY DEF Inv, TypeOK, Apart
<1> QED
  BY <1>1, <1>2 DEF Inv

LEMMA NothingChanges == ASSUME Inv, UNCHANGED vars PROVE Inv'
  BY DEF Inv, TypeOK, HolderKnowsTheRow, vars, database, counters

-----------------------------------------------------------------------------
(* The editor.                                                             *)

LEMMA TypeStep ==
    ASSUME Inv, NEW e \in Editor, NEW m \in Mark, Type(e, m)
    PROVE  Inv'
<1>0. TypeOK
  BY DEF Inv
<1>1. editor[e] \in EditorRecord /\ editor[e].draft \in Text
  BY <1>0 DEF TypeOK, EditorRecord
<1>2. editor[e].draft \cup {m} \in Text /\ used' \in Text
  BY <1>0, <1>1 DEF Type, TypeOK, Text
<1>3. editor' \in [Editor -> EditorRecord]
  <2>1. [editor[e] EXCEPT !.draft = editor[e].draft \cup {m}, !.timer = TRUE] \in EditorRecord
    BY <1>1, <1>2, EditorWrites
  <2>2. editor' = [editor EXCEPT ![e] =
                     [editor[e] EXCEPT !.draft = editor[e].draft \cup {m}, !.timer = TRUE]]
    BY DEF Type
  <2> QED
    BY <1>0, <2>1, <2>2, EditorTypes
<1>4. NobodyTakes /\ job' \in [Job -> JobRecord]
  BY <1>0 DEF Type, NobodyTakes, TypeOK
<1> QED
  BY <1>0, <1>2, <1>3, <1>4, ApartStep DEF Type, database, counters, Apart, TypeOK

LEMMA SendTypes ==
    ASSUME TypeOK, NEW j \in Job, NEW r \in JobRecord, r.at = "sent", Send(j, r)
    PROVE  job' \in [Job -> JobRecord] /\ NobodyTakes
  BY JobTypes DEF Send

LEMMA DoneTypes ==
    ASSUME TypeOK, NEW j \in Job, Done(j)
    PROVE  job' \in [Job -> JobRecord] /\ NobodyTakes
  BY JobTypes, IdleType DEF Done

LEMMA RefetchTypes ==
    ASSUME TypeOK, NEW e \in Editor, NEW j \in Job, Refetch(e, j)
    PROVE  job' \in [Job -> JobRecord] /\ NobodyTakes
<1>1. job \in [Job -> JobRecord]
  BY DEF TypeOK
<1> QED
  BY <1>1, WithFetchType DEF Refetch, NobodyTakes

LEMMA SendSteps ==
    ASSUME Inv, NEW e \in Editor, NEW j \in Job,
           \/ Fire(e, j) \/ Close(e, j) \/ AskRename(e, j)
           \/ \E v \in Text : AskRestore(e, j, v)
    PROVE  Inv'
<1>0. TypeOK
  BY DEF Inv
<1>1. /\ editor[e] \in EditorRecord
      /\ [editor[e] EXCEPT !.timer = FALSE] \in EditorRecord
      /\ [editor[e] EXCEPT !.open = FALSE, !.timer = FALSE] \in EditorRecord
      /\ [editor[e] EXCEPT !.open = FALSE] \in EditorRecord
  <2>1. editor[e] \in EditorRecord
    BY <1>0 DEF TypeOK
  <2> QED
    BY <2>1, EditorWrites
<1>2. CASE Fire(e, j)
  <2>1. job' \in [Job -> JobRecord] /\ NobodyTakes
    BY <1>0, <1>2, SaveOfType, SendTypes DEF Fire
  <2>2. editor' \in [Editor -> EditorRecord]
    BY <1>0, <1>1, <1>2, EditorTypes DEF Fire
  <2> QED
    BY <1>0, <1>2, <2>1, <2>2, ApartStep DEF Fire, database, counters, Apart, TypeOK
<1>3. CASE Close(e, j)
  <2>1. CASE Dirty(e)
    <3>1. job' \in [Job -> JobRecord] /\ NobodyTakes
      BY <1>0, <1>3, <2>1, SaveOfType, SendTypes DEF Close
    <3>2. editor' \in [Editor -> EditorRecord]
      BY <1>0, <1>1, <1>3, <2>1, EditorTypes DEF Close
    <3> QED
      BY <1>0, <1>3, <3>1, <3>2, ApartStep DEF Close, database, counters, Apart, TypeOK
  <2>2. CASE ~Dirty(e)
    <3>1. job' \in [Job -> JobRecord] /\ NobodyTakes
      BY <1>0, <1>3, <2>2 DEF Close, NobodyTakes, TypeOK
    <3>2. editor' \in [Editor -> EditorRecord]
      BY <1>0, <1>1, <1>3, <2>2, EditorTypes DEF Close
    <3> QED
      BY <1>0, <1>3, <3>1, <3>2, ApartStep DEF Close, database, counters, Apart, TypeOK
  <2> QED
    BY <2>1, <2>2
<1>4. CASE AskRename(e, j)
  <2>1. Request("rename", e, {}, 0, "text") \in JobRecord
        /\ Request("rename", e, {}, 0, "text").at = "sent"
    BY RequestType DEF Kinds, Bases, Text
  <2>2. job' \in [Job -> JobRecord] /\ NobodyTakes
    BY <1>0, <1>4, <2>1, SendTypes DEF AskRename
  <2>3. asked' \in 0 .. MaxRare
    BY <1>0, <1>4, SaveBounds DEF AskRename, TypeOK
  <2> QED
    BY <1>0, <1>4, <2>2, <2>3, ApartStep DEF AskRename, database, Apart, TypeOK
<1>5. CASE \E v \in Text : AskRestore(e, j, v)
  <2>0. PICK v \in Text : AskRestore(e, j, v)
    BY <1>5
  <2>1. Request("restore", e, v, 0, "text") \in JobRecord
        /\ Request("restore", e, v, 0, "text").at = "sent"
    BY RequestType DEF Kinds, Bases
  <2>2. job' \in [Job -> JobRecord] /\ NobodyTakes
    BY <1>0, <2>0, <2>1, SendTypes DEF AskRestore
  <2>3. asked' \in 0 .. MaxRare
    BY <1>0, <2>0, SaveBounds DEF AskRestore, TypeOK
  <2> QED
    BY <1>0, <2>0, <2>2, <2>3, ApartStep DEF AskRestore, database, Apart, TypeOK
<1> QED
  BY <1>2, <1>3, <1>4, <1>5

(* What an editor shows when a text is put in its place keeps its type. *)
LEMMA ShowingType ==
    ASSUME TypeOK, NEW e \in Editor, NEW j \in Job
    PROVE  [editor EXCEPT ![e] = Showing(@, j)] \in [Editor -> EditorRecord]
<1>1. editor[e] \in EditorRecord /\ job[j] \in JobRecord
  BY DEF TypeOK
<1>2. job[j].content \in Text /\ job[j].stamp \in Nat
  BY <1>1 DEF JobRecord
<1>3. Showing(editor[e], j) \in EditorRecord
  BY <1>1, <1>2, EditorWrites DEF Showing
<1> QED
  BY <1>3, EditorTypes

LEMMA AnswerSteps ==
    ASSUME Inv, NEW e \in Editor, NEW j \in Job, Handle(e, j)
    PROVE  Inv'
<1>0. TypeOK
  BY DEF Inv
<1>1. /\ editor[e] \in EditorRecord /\ editor[e].draft \in Text /\ editor[e].retries \in 0 .. 2
      /\ editor[e].presumed \in Text /\ job[j].stamp \in Nat
  <2>1. editor[e] \in EditorRecord /\ job[j] \in JobRecord
    BY <1>0 DEF TypeOK
  <2> QED
    BY <2>1 DEF EditorRecord, JobRecord
<1>2. CASE SaveSucceeded(e, j)
  <2>0. /\ CameWith(e, j) \in Bases
        /\ editor[e].presumed \cup (editor[e].draft \ job[j].text) \in Text
    BY <1>1 DEF CameWith, Bases, Text
  <2>1. [editor[e] EXCEPT !.saved = editor[e].draft, !.base = job[j].stamp, !.retries = 0,
                          !.came = CameWith(e, j),
                          !.presumed = editor[e].presumed \cup (editor[e].draft \ job[j].text)]
          \in EditorRecord
    BY <1>1, <2>0, EditorWrites
  <2>2. editor' \in [Editor -> EditorRecord]
    BY <1>0, <1>2, <2>1, EditorTypes DEF SaveSucceeded
  <2>3. job' \in [Job -> JobRecord] /\ NobodyTakes
    BY <1>0, <1>2, DoneTypes DEF SaveSucceeded
  <2> QED
    BY <1>0, <1>2, <2>2, <2>3, ApartStep DEF SaveSucceeded, database, counters, Apart, TypeOK
<1>3. CASE Resubmit(e, j)
  <2>1. editor[e].retries + 1 \in 0 .. 2
    BY <1>1, <1>3 DEF Resubmit, Resubmits
  <2>2. [editor[e] EXCEPT !.retries = editor[e].retries + 1, !.base = job[j].stamp, !.came = "conflict"]
          \in EditorRecord
    BY <1>1, <2>1, EditorWrites
  <2>3. editor' \in [Editor -> EditorRecord]
    BY <1>0, <1>3, <2>2, EditorTypes DEF Resubmit
  <2>4. Request("save", e, editor[e].draft, job[j].stamp, "conflict") \in JobRecord
        /\ Request("save", e, editor[e].draft, job[j].stamp, "conflict").at = "sent"
    BY <1>1, RequestType DEF Kinds, Bases
  <2>5. job' \in [Job -> JobRecord] /\ NobodyTakes
    BY <1>0, <1>3, <2>4, JobTypes DEF Resubmit
  <2> QED
    BY <1>0, <1>3, <2>3, <2>5, ApartStep DEF Resubmit, database, counters, Apart, TypeOK
<1>4. CASE GiveWay(e, j)
  <2>3. editor' \in [Editor -> EditorRecord]
    <3>1. CASE editor[e].retries < 2
      <4>1. editor[e].retries + 1 \in 0 .. 2
        BY <1>1, <3>1
      <4>2. [editor[e] EXCEPT !.retries = editor[e].retries + 1] \in EditorRecord
        BY <1>1, <4>1, EditorWrites
      <4> QED
        BY <1>0, <1>4, <3>1, <4>2, EditorTypes DEF GiveWay
    <3>2. CASE ~(editor[e].retries < 2)
      BY <1>0, <1>4, <3>2 DEF GiveWay, TypeOK
    <3> QED
      BY <3>1, <3>2
  <2>4. job' \in [Job -> JobRecord] /\ NobodyTakes
    BY <1>0, <1>4, RefetchTypes DEF GiveWay
  <2> QED
    BY <1>0, <1>4, <2>3, <2>4, ApartStep DEF GiveWay, database, counters, Apart, TypeOK
<1>5. CASE Adopt(e, j) \/ Restored(e, j)
  <2>1. editor' \in [Editor -> EditorRecord]
    BY <1>0, <1>5, ShowingType DEF Adopt, Restored, TypeOK
  <2>2. job' \in [Job -> JobRecord] /\ NobodyTakes
    BY <1>0, <1>5, DoneTypes DEF Adopt, Restored
  <2> QED
    BY <1>0, <1>5, <2>1, <2>2, ApartStep DEF Adopt, Restored, database, counters, Apart, TypeOK
<1>6. CASE Renamed(e, j) \/ SaveRefused(e, j)
  <2>1. job' \in [Job -> JobRecord] /\ NobodyTakes
    BY <1>0, <1>6, RefetchTypes DEF Renamed, SaveRefused
  <2> QED
    BY <1>0, <1>6, <2>1, ApartStep DEF Renamed, SaveRefused, database, counters, Apart, TypeOK
<1> QED
  BY <1>2, <1>3, <1>4, <1>5, <1>6 DEF Handle

(* A request that nobody waits for any more is handled as before. *)
LEMMA LoseStep ==
    ASSUME Inv, NEW e \in Editor, NEW j \in Job, Lose(e, j)
    PROVE  Inv'
<1>0. TypeOK
  BY DEF Inv
<1> DEFINE unheard == [job EXCEPT ![j] = [@ EXCEPT !.by = Nobody]]
<1>1. job \in [Job -> JobRecord] /\ job[j] \in JobRecord
  BY <1>0 DEF TypeOK
<1>2. /\ unheard \in [Job -> JobRecord]
      /\ \A i \in Job : /\ unheard[i].at = job[i].at
                        /\ unheard[i].kind = job[i].kind
                        /\ unheard[i].content = job[i].content
  <2>1. [job[j] EXCEPT !.by = Nobody] \in JobRecord
        /\ [job[j] EXCEPT !.by = Nobody].at = job[j].at
        /\ [job[j] EXCEPT !.by = Nobody].kind = job[j].kind
        /\ [job[j] EXCEPT !.by = Nobody].content = job[j].content
    BY <1>1 DEF JobRecord
  <2> QED
    BY <1>1, <2>1
<1>3. job' \in [Job -> JobRecord] /\ NobodyTakes
  <2>1. CASE Refetch(e, j) \/ Done(j)
    BY <1>0, <2>1, RefetchTypes, DoneTypes
  <2>2. CASE \E k \in Job : job' = WithFetch(unheard, e, k)
    <3>0. PICK k \in Job : job' = WithFetch(unheard, e, k)
      BY <2>2
    <3> HIDE DEF unheard
    <3> QED
      BY <1>2, <3>0, WithFetchType DEF NobodyTakes
  <2>3. CASE job' = unheard
    BY <1>2, <2>3 DEF NobodyTakes
  <2> QED
    BY <2>1, <2>2, <2>3 DEF Lose
<1>4. lost' \in 0 .. MaxRare
  BY <1>0, SaveBounds DEF Lose, TypeOK
<1> QED
  BY <1>0, <1>3, <1>4, ApartStep DEF Lose, database, Apart, TypeOK

LEMMA CallStep ==
    ASSUME Inv, NEW j \in Job, NEW kind \in Kinds, NEW m \in Mark, Call(j, kind, m)
    PROVE  Inv'
<1>0. TypeOK
  BY DEF Inv
<1>1. Request(kind, Nobody, {m}, 0, "text") \in JobRecord
      /\ Request(kind, Nobody, {m}, 0, "text").at = "sent"
  BY RequestType DEF Bases, Text
<1>2. job' \in [Job -> JobRecord] /\ NobodyTakes
  BY <1>0, <1>1, SendTypes DEF Call
<1>3. used' \in Text
  BY <1>0 DEF Call, TypeOK, Text
<1> QED
  BY <1>0, <1>2, <1>3, ApartStep DEF Call, database, counters, Apart, TypeOK

-----------------------------------------------------------------------------
(* The server.                                                             *)

LEMMA ReadStep ==
    ASSUME Inv, NEW j \in Job, Read(j) \/ Refuse(j)
    PROVE  Inv'
<1>0. TypeOK
  BY DEF Inv
<1>1. job[j] \in JobRecord /\ row.content \in Text /\ row.stamp \in Nat
  BY <1>0 DEF TypeOK
<1>2. CASE Read(j)
  <2> DEFINE place == IF job[j].kind = "fetch" THEN "ok" ELSE "read"
             r == [job[j] EXCEPT !.content = row.content, !.stamp = row.stamp, !.at = place]
  <2>1. place \in Places /\ place # "locked"
    BY DEF Places, Answers
  <2>2. r \in JobRecord /\ r.at = place
    <3> HIDE DEF place
    <3>1. r \in JobRecord
      BY <1>1, <2>1, JobWrites
    <3> QED
      BY <1>1, <3>1 DEF JobRecord
  <2>3. job' = [job EXCEPT ![j] = r]
    BY <1>2 DEF Read
  <2>4. job' \in [Job -> JobRecord] /\ NobodyTakes
    <3> HIDE DEF r, place
    <3> QED
      BY <1>0, <2>1, <2>2, <2>3, JobTypes
  <2> QED
    BY <1>0, <1>2, <2>4, ApartStep DEF Read, database, counters, Apart, TypeOK
<1>3. CASE Refuse(j)
  <2> DEFINE r == [job[j] EXCEPT !.at = "conflict", !.stamp = row.stamp]
  <2>1. r \in JobRecord /\ r.at = "conflict"
    <3>1. r \in JobRecord
      BY <1>1, JobWrites DEF Places, Answers
    <3> QED
      BY <1>1, <3>1 DEF JobRecord
  <2>2. Done(j) \/ job' = [job EXCEPT ![j] = r]
    BY <1>3 DEF Refuse
  <2>3. job' \in [Job -> JobRecord] /\ NobodyTakes
    <3> HIDE DEF r
    <3> QED
      BY <1>0, <2>1, <2>2, JobTypes, DoneTypes
  <2> QED
    BY <1>0, <1>3, <2>3, ApartStep DEF Refuse, database, counters, Apart, TypeOK
<1> QED
  BY <1>2, <1>3

LEMMA TakeStep ==
    ASSUME Inv, NEW j \in Job, Take(j)
    PROVE  Inv'
<1>0. TypeOK /\ HolderKnowsTheRow
  BY DEF Inv
<1> DEFINE r == [job[j] EXCEPT !.at = "locked", !.content = Loaded(j), !.stamp = row.stamp]
<1>1. job[j] \in JobRecord /\ row.content \in Text /\ row.stamp \in Nat
  BY <1>0 DEF TypeOK
<1>2. Loaded(j) \in Text
  BY <1>1 DEF Loaded, JobRecord
<1>3. r \in JobRecord /\ r.content = Loaded(j) /\ r.kind = job[j].kind
  <2>1. r \in JobRecord
    BY <1>1, <1>2, JobWrites DEF Places, Answers
  <2> QED
    BY <1>1, <2>1 DEF JobRecord
<1>4. job' = [job EXCEPT ![j] = r]
  BY DEF Take
<1>5. \A i \in Job : job[i].at # "locked"
  BY <1>0, NobodyIsNoOne DEF HolderKnowsTheRow, Take, Free
<1> HIDE DEF r
<1>6. job' \in [Job -> JobRecord]
  BY <1>0, <1>3, <1>4 DEF TypeOK
<1>7. HolderKnowsTheRow'
  <2> SUFFICES ASSUME NEW i \in Job, job'[i].at = "locked"
               PROVE  /\ lock' = i
                      /\ ~LoadsFirst(job'[i].kind) => job'[i].content = row'.content
    BY DEF HolderKnowsTheRow, LoadsFirst
  <2>1. i = j
    BY <1>0, <1>4, <1>5 DEF TypeOK
  <2>2. job'[i] = r
    BY <1>0, <1>4, <2>1 DEF TypeOK
  <2> QED
    BY <1>3, <2>1, <2>2 DEF Take, Loaded
<1>8. TypeOK'
  BY <1>0, <1>6 DEF Take, TypeOK, counters
<1> QED
  BY <1>7, <1>8 DEF Inv

LEMMA WriteStep ==
    ASSUME Inv, NEW j \in Job, Write(j)
    PROVE  Inv'
<1>0. TypeOK /\ HolderKnowsTheRow
  BY DEF Inv
<1> DEFINE r == [job[j] EXCEPT !.at = "committed"]
<1>1. /\ job[j] \in JobRecord /\ job[j].content \in Text
      /\ row.content \in Text /\ row.stamp \in Nat
  BY <1>0 DEF TypeOK, JobRecord
<1>2. NewText(j) \in Text
  BY <1>0, NewTextType
<1>3. row' \in [content : Text, stamp : Nat] /\ row'.content \in Text
  BY <1>0, <1>1, <1>2 DEF Write, TypeOK
<1>4. versions' \in Seq(Text) /\ Len(versions') <= Kept
  BY <1>0, <1>1, PrunedType DEF Write, TypeOK
<1>5. r \in JobRecord /\ r.at = "committed"
  <2>1. r \in JobRecord
    BY <1>1, JobWrites DEF Places, Answers
  <2> QED
    BY <1>1, <2>1 DEF JobRecord
<1>6. job' = [job EXCEPT ![j] = r]
  BY DEF Write
<1> HIDE DEF r
<1>7. job' \in [Job -> JobRecord] /\ NobodyTakes
  BY <1>0, <1>5, <1>6, JobTypes
<1>8. HolderKnowsTheRow'
  <2>1. \A i \in Job : job'[i].at # "locked"
    <3> SUFFICES ASSUME NEW i \in Job, job'[i].at = "locked" PROVE FALSE
      OBVIOUS
    <3>1. i # j
      BY <1>0, <1>5, <1>6 DEF TypeOK
    <3>2. job[i].at = "locked" /\ job[j].at = "locked"
      BY <1>7 DEF NobodyTakes, Write
    <3> QED
      BY <1>0, <3>1, <3>2 DEF HolderKnowsTheRow
  <2> QED
    BY <2>1 DEF HolderKnowsTheRow
<1>9. young' \in BOOLEAN
  BY DEF Write
<1>10. lock' \in Job \cup {Nobody} /\ stored' \in Text
  BY <1>0, <1>3 DEF Write, TypeOK, Text
<1>11. TypeOK'
  BY <1>0, <1>3, <1>4, <1>7, <1>9, <1>10 DEF Write, TypeOK, counters
<1> QED
  BY <1>8, <1>11 DEF Inv

LEMMA RejectStep ==
    ASSUME Inv, NEW j \in Job, Reject(j)
    PROVE  Inv'
<1>0. TypeOK /\ HolderKnowsTheRow
  BY DEF Inv
<1> DEFINE r == [job[j] EXCEPT !.at = "refused"]
<1>1. r \in JobRecord /\ r.at = "refused"
  <2>1. job[j] \in JobRecord
    BY <1>0 DEF TypeOK
  <2>2. r \in JobRecord
    BY <2>1, JobWrites DEF Places, Answers
  <2> QED
    BY <2>1, <2>2 DEF JobRecord
<1>2. job' = [job EXCEPT ![j] = r] \/ Done(j)
  BY DEF Reject
<1> HIDE DEF r
<1>3. job' \in [Job -> JobRecord] /\ NobodyTakes
  BY <1>0, <1>1, <1>2, JobTypes, DoneTypes
<1>4. job'[j].at # "locked"
  BY <1>0, <1>1, <1>2, IdleType DEF Done, TypeOK
<1>5. HolderKnowsTheRow'
  <2> SUFFICES ASSUME NEW i \in Job, job'[i].at = "locked" PROVE FALSE
    BY DEF HolderKnowsTheRow
  <2>1. job[i].at = "locked" /\ job[j].at = "locked" /\ i # j
    BY <1>3, <1>4 DEF NobodyTakes, Reject
  <2> QED
    BY <1>0, <2>1 DEF HolderKnowsTheRow
<1>6. TypeOK'
  BY <1>0, <1>3 DEF Reject, TypeOK, counters
<1> QED
  BY <1>5, <1>6 DEF Inv

LEMMA RefreshStep ==
    ASSUME Inv, NEW j \in Job, Refresh(j)
    PROVE  Inv'
<1>0. TypeOK
  BY DEF Inv
<1> DEFINE r == [job[j] EXCEPT !.at = "ok", !.content = row.content, !.stamp = row.stamp]
<1>1. job[j] \in JobRecord /\ row.content \in Text /\ row.stamp \in Nat
  BY <1>0 DEF TypeOK
<1>2. r \in JobRecord /\ r.at = "ok"
  <2>1. r \in JobRecord
    BY <1>1, JobWrites DEF Places, Answers
  <2> QED
    BY <1>1, <2>1 DEF JobRecord
<1>3. job' = [job EXCEPT ![j] = r] \/ job' = [job EXCEPT ![j] = Idle]
  BY DEF Refresh
<1> HIDE DEF r
<1>4. job' \in [Job -> JobRecord] /\ NobodyTakes
  BY <1>0, <1>2, <1>3, JobTypes, IdleType
<1> QED
  BY <1>0, <1>4, ApartStep DEF Refresh, database, counters, Apart, TypeOK

LEMMA AgeStep == ASSUME Inv, SnapshotAges PROVE Inv'
  BY DEF Inv, TypeOK, HolderKnowsTheRow, SnapshotAges, counters

LEMMA InvStep == Inv /\ [Next]_vars => Inv'
<1> SUFFICES ASSUME Inv, [Next]_vars PROVE Inv'
  OBVIOUS
<1>1. ASSUME NEW j \in Job, Serve(j) PROVE Inv'
  BY <1>1, ReadStep, TakeStep, WriteStep, RejectStep, RefreshStep DEF Serve
<1> QED
  BY <1>1, NothingChanges, TypeStep, SendSteps, AnswerSteps, LoseStep, CallStep, AgeStep DEF Next

-----------------------------------------------------------------------------
(* Every reachable state is typed, and whoever holds the row knows it.     *)
THEOREM HolderKnowsTheRowHolds == Spec => []Inv
<1> QED
  BY InvInit, InvStep, PTL DEF Spec

(* Types, for every number of editors and requests; the history never      *)
(* outgrows NOTE_VERSIONS_KEPT.                                            *)
THEOREM NoteTypeCorrect == Spec => []TypeOK
<1>1. Inv => TypeOK
  BY DEF Inv
<1> QED
  BY <1>1, HolderKnowsTheRowHolds, PTL

(* An append keeps every word of the row it lands on: it composes with the *)
(* text its lock has frozen (note_service.py:295-309).                     *)
THEOREM AppendsLandHolds == Spec => AppendsLand
<1>1. ASSUME Inv, NEW j \in Job, Write(j), job[j].kind = "append"
      PROVE  row.content \cup job[j].text \subseteq row'.content
  <2>1. job[j].content = row.content
    BY <1>1 DEF Inv, HolderKnowsTheRow, LoadsFirst, Write
  <2>2. NewText(j) = row.content \cup job[j].text
    BY <1>1, <2>1 DEF NewText
  <2>3. row \in [content : Text, stamp : Nat]
    BY <1>1 DEF Inv, TypeOK
  <2>4. row'.content = NewText(j)
    BY <1>1, <2>1, <2>2, <2>3 DEF Write, Touched
  <2> QED
    BY <2>2, <2>4
<1>2. Inv => [\A j \in Job : Write(j) /\ job[j].kind = "append" =>
                row.content \cup job[j].text \subseteq row'.content]_vars
  BY <1>1
<1> QED
  BY <1>2, HolderKnowsTheRowHolds, PTL DEF AppendsLand

(* The text a restore replaces is in the history when the restore has      *)
(* landed, whoever wrote it and however full the history is                *)
(* (version_service.py:97-106).                                            *)
THEOREM RestoreIsReversibleHolds == Spec => RestoreIsReversible
<1>1. ASSUME Inv, NEW j \in Job, Write(j), job[j].kind = "restore",
             row'.content # row.content
      PROVE  \E i \in DOMAIN versions' : versions'[i] = row.content
  <2>1. job[j].content = row.content
    BY <1>1 DEF Inv, HolderKnowsTheRow, LoadsFirst, Write
  <2>2. NewText(j) # job[j].content
    BY <1>1, <2>1 DEF Write, Touched
  <2>3. versions' = Pruned(Append(versions, row.content))
    BY <1>1, <2>1, <2>2 DEF Write, Snapshot
  <2>4. versions \in Seq(Text) /\ Len(versions) <= Kept /\ row.content \in Text
    BY <1>1 DEF Inv, TypeOK
  <2> QED
    BY <2>3, <2>4, PrunedType
<1>2. Inv => [\A j \in Job :
                Write(j) /\ job[j].kind = "restore" /\ row'.content # row.content =>
                  \E i \in DOMAIN versions' : versions'[i] = row.content]_vars
  BY <1>1
<1> QED
  BY <1>2, HolderKnowsTheRowHolds, PTL DEF RestoreIsReversible

-----------------------------------------------------------------------------
(* What the editors promise.  The database has had every word of the row,  *)
(* of what the sessions loaded and of the saves it answers; what an editor *)
(* takes for saved, it has had too, or an answer counted it as saved.      *)
KnownJob(j) ==
    /\ job[j].content \subseteq stored
    /\ job[j].kind = "save" /\ job[j].at \in {"committed", "ok"} => job[j].text \subseteq stored

KnownEditor(e) == editor[e].saved \subseteq stored \cup editor[e].presumed

Known ==
    /\ row.content \subseteq stored
    /\ \A j \in Job : KnownJob(j)
    /\ \A e \in Editor : KnownEditor(e)

(* What a base_updated_at says: it is no later than the row's, and if it   *)
(* is the row's and came with its text, then the row's words are in the    *)
(* text that is sent with it.                                              *)
Vouches(base, came, text) ==
    /\ base \in 1 .. row.stamp
    /\ came = "text" /\ base = row.stamp => row.content \subseteq text

(* What each request knows of the row at each place it can be.             *)
KnowsRow(j) ==
    /\ job[j].kind = "save" /\ job[j].at \in {"sent", "locked"} =>
         Vouches(job[j].base, job[j].came, job[j].text)
    /\ job[j].kind = "save" /\ job[j].at = "locked" => job[j].base = row.stamp
    /\ job[j].at \in {"ok", "conflict"} => job[j].stamp \in 1 .. row.stamp
    /\ job[j].at = "ok" /\ job[j].stamp = row.stamp => job[j].content = row.content

Based ==
    /\ row.stamp # 0
    /\ \A e \in Editor : Vouches(editor[e].base, editor[e].came, editor[e].draft)
    /\ \A j \in Job : KnowsRow(j)

EditInv == Inv /\ Known /\ Based

LEMMA Typed ==
    ASSUME Inv
    PROVE  /\ job \in [Job -> JobRecord] /\ editor \in [Editor -> EditorRecord]
           /\ row \in [content : Text, stamp : Nat]
           /\ used \in Text /\ stored \in Text
  BY DEF Inv, TypeOK

LEMMA IdleFields ==
    Idle.kind = "none" /\ Idle.by = Nobody /\ Idle.text = {} /\ Idle.at = "idle" /\ Idle.content = {}
  BY DEF Idle

-----------------------------------------------------------------------------
(* Steps outside the database.                                             *)

(* A request is as it was but for who waits for it, or over, or one that   *)
(* has just been sent and is no save.                                      *)
Quieter(i) ==
    \/ job'[i] = job[i]
    \/ job'[i].kind # "save" /\ job'[i].content = {} /\ job'[i].at \in {"idle", "sent"}
    \/ /\ job'[i].kind = job[i].kind /\ job'[i].content = job[i].content
       /\ job'[i].text = job[i].text /\ job'[i].at = job[i].at
       /\ job'[i].base = job[i].base /\ job'[i].came = job[i].came
       /\ job'[i].stamp = job[i].stamp

(* An editor has as much and knows as much of the row as it had and knew.  *)
SameEditor(e) ==
    /\ editor'[e].saved = editor[e].saved /\ editor'[e].presumed = editor[e].presumed
    /\ editor'[e].base = editor[e].base /\ editor'[e].came = editor[e].came
    /\ editor[e].draft \subseteq editor'[e].draft

LEMMA QuietJob ==
    ASSUME NEW i \in Job, KnownJob(i), KnowsRow(i), Quieter(i), UNCHANGED database
    PROVE  KnownJob(i)' /\ KnowsRow(i)'
<1>1. KnownJob(i)'
  BY DEF KnownJob, Quieter, database
<1>2. KnowsRow(i)'
  BY DEF KnowsRow, Quieter, Vouches, database
<1> QED
  BY <1>1, <1>2

LEMMA QuietEditor ==
    ASSUME NEW e \in Editor, KnownEditor(e), Vouches(editor[e].base, editor[e].came, editor[e].draft),
           SameEditor(e), UNCHANGED database
    PROVE  KnownEditor(e)' /\ Vouches(editor[e].base, editor[e].came, editor[e].draft)'
  BY DEF KnownEditor, Vouches, SameEditor, database

(* Of a step outside the database only the requests and the editors that   *)
(* are not as before have to be looked at.                                 *)
LEMMA ApartEdit ==
    ASSUME Known, Based, UNCHANGED database,
           \A i \in Job : Quieter(i) \/ (KnownJob(i)' /\ KnowsRow(i)'),
           \A e \in Editor :
               \/ SameEditor(e)
               \/ KnownEditor(e)' /\ Vouches(editor[e].base, editor[e].came, editor[e].draft)'
    PROVE  Known' /\ Based'
<1>1. \A i \in Job : KnownJob(i)' /\ KnowsRow(i)'
  BY QuietJob DEF Known, Based
<1>2. \A e \in Editor :
        KnownEditor(e)' /\ Vouches(editor[e].base, editor[e].came, editor[e].draft)'
  BY QuietEditor DEF Known, Based
<1>3. (row.content \subseteq stored)' /\ row'.stamp # 0
  BY DEF Known, Based, database
<1> QED
  BY <1>1, <1>2, <1>3 DEF Known, Based

(* A GET replaces older ones; the other requests are as they were.         *)
LEMMA WithFetchJobs ==
    ASSUME NEW jobs, NEW e, NEW k, NEW i \in Job
    PROVE  \/ WithFetch(jobs, e, k)[i] = jobs[i] \/ WithFetch(jobs, e, k)[i] = Idle
           \/ WithFetch(jobs, e, k)[i] = Request("fetch", e, {}, 0, "text")
  BY DEF WithFetch

LEMMA QuietIdle ==
    ASSUME NEW e, NEW i \in Job,
           \/ job'[i] = job[i] \/ job'[i] = Idle
           \/ job'[i] = Request("fetch", e, {}, 0, "text")
    PROVE  Quieter(i)
<1>1. LET r == Request("fetch", e, {}, 0, "text")
      IN  r.kind = "fetch" /\ r.content = {} /\ r.at = "sent"
  BY DEF Request
<1> QED
  BY <1>1, IdleFields DEF Quieter

LEMMA QuietRefetch ==
    ASSUME Inv, NEW e \in Editor, NEW j \in Job, Refetch(e, j) \/ Done(j)
    PROVE  \A i \in Job : Quieter(i)
<1> TAKE i \in Job
<1>1. CASE Refetch(e, j)
  <2>1. \/ job'[i] = job[i] \/ job'[i] = Idle
        \/ job'[i] = Request("fetch", e, {}, 0, "text")
    BY <1>1, WithFetchJobs DEF Refetch
  <2> QED
    BY <2>1, QuietIdle
<1>2. CASE Done(j)
  <2>1. job'[i] = job[i] \/ job'[i] = Idle
    BY <1>2, Typed DEF Done
  <2> QED
    BY <2>1, QuietIdle
<1> QED
  BY <1>1, <1>2

LEMMA QuietLose ==
    ASSUME Inv, NEW e \in Editor, NEW j \in Job, Lose(e, j)
    PROVE  (\A i \in Job : Quieter(i)) /\ UNCHANGED <<database, editor, used>>
<1> DEFINE unheard == [job EXCEPT ![j] = [@ EXCEPT !.by = Nobody]]
<1>1. \A i \in Job : \/ unheard[i] = job[i]
                     \/ /\ unheard[i].kind = job[i].kind /\ unheard[i].content = job[i].content
                        /\ unheard[i].text = job[i].text /\ unheard[i].at = job[i].at
                        /\ unheard[i].base = job[i].base /\ unheard[i].came = job[i].came
                        /\ unheard[i].stamp = job[i].stamp
  <2>1. job[j] \in JobRecord
    BY Typed
  <2> DEFINE r == [job[j] EXCEPT !.by = Nobody]
  <2>2. /\ r.kind = job[j].kind /\ r.content = job[j].content
        /\ r.text = job[j].text /\ r.at = job[j].at
        /\ r.base = job[j].base /\ r.came = job[j].came /\ r.stamp = job[j].stamp
    BY <2>1 DEF JobRecord
  <2>3. unheard[j] = r /\ \A i \in Job \ {j} : unheard[i] = job[i]
    BY Typed
  <2> HIDE DEF r, unheard
  <2> QED
    BY <2>2, <2>3
<1> HIDE DEF unheard
<1>2. CASE Refetch(e, j) \/ Done(j)
  BY <1>2, QuietRefetch DEF Lose, database
<1>3. CASE job' = unheard
  BY <1>1, <1>3 DEF Lose, Quieter
<1>4. CASE \E k \in Job : job' = WithFetch(unheard, e, k)
  <2>1. PICK k \in Job : job' = WithFetch(unheard, e, k)
    BY <1>4
  <2>2. ASSUME NEW i \in Job PROVE Quieter(i)
    <3>1. CASE job'[i] = unheard[i]
      BY <1>1, <3>1 DEF Quieter
    <3>2. CASE job'[i] = Idle \/ job'[i] = Request("fetch", e, {}, 0, "text")
      BY <3>2, QuietIdle
    <3> QED
      BY <2>1, <3>1, <3>2, WithFetchJobs
  <2> QED
    BY <2>2 DEF Lose
<1> QED
  BY <1>2, <1>3, <1>4 DEF Lose, unheard

(* Nothing that an editor does but hear an answer takes a word from it, or *)
(* changes what it knows of the row.                                       *)
LEMMA OwnSteps ==
    ASSUME Inv, NEW e \in Editor,
           \/ \E m \in Mark : Type(e, m)
           \/ \E j \in Job : \/ Fire(e, j) \/ Close(e, j) \/ AskRename(e, j)
                             \/ \E v \in Text : AskRestore(e, j, v)
    PROVE  \A d \in Editor : SameEditor(d)
<1>0. editor \in [Editor -> EditorRecord] /\ editor[e] \in EditorRecord
  BY Typed
<1>1. \A d \in Editor \ {e} : editor'[d] = editor[d]
  BY <1>0 DEF Type, Fire, Close, AskRename, AskRestore
<1>2. SameEditor(e)
  <2>1. CASE \E m \in Mark : Type(e, m)
    <3>0. PICK m \in Mark : Type(e, m)
      BY <2>1
    <3>1. editor'[e] = [editor[e] EXCEPT !.draft = editor[e].draft \cup {m}, !.timer = TRUE]
      BY <1>0, <3>0 DEF Type
    <3> QED
      BY <1>0, <3>1 DEF SameEditor, EditorRecord
  <2>2. CASE editor'[e] = [editor[e] EXCEPT !.timer = FALSE]
    BY <1>0, <2>2 DEF SameEditor, EditorRecord
  <2>3. CASE editor'[e] = [editor[e] EXCEPT !.open = FALSE, !.timer = FALSE]
    BY <1>0, <2>3 DEF SameEditor, EditorRecord
  <2>4. CASE editor'[e] = [editor[e] EXCEPT !.open = FALSE]
    BY <1>0, <2>4 DEF SameEditor, EditorRecord
  <2>5. CASE editor' = editor
    BY <2>5 DEF SameEditor
  <2>6. ASSUME NEW j \in Job, Fire(e, j) \/ Close(e, j) \/ AskRename(e, j)
                              \/ \E v \in Text : AskRestore(e, j, v)
        PROVE  SameEditor(e)
    BY <1>0, <2>2, <2>3, <2>4, <2>5, <2>6 DEF Fire, Close, AskRename, AskRestore
  <2> QED
    BY <2>1, <2>6
<1> QED
  BY <1>1, <1>2 DEF SameEditor

(* A save is sent with the whole draft and the base it goes with.          *)
LEMMA SaveOfFields ==
    ASSUME NEW e, NEW by
    PROVE  /\ SaveOf(e, by).kind = "save" /\ SaveOf(e, by).by = by
           /\ SaveOf(e, by).text = editor[e].draft /\ SaveOf(e, by).content = {}
           /\ SaveOf(e, by).at = "sent" /\ SaveOf(e, by).base = editor[e].base
           /\ SaveOf(e, by).came = editor[e].came
  BY DEF SaveOf, Request

(* What is sent: a save, with all its editor knows, or what knows nothing. *)
LEMMA SentJobs ==
    ASSUME Inv, Based, NEW j \in Job, NEW r, Send(j, r), UNCHANGED database,
           \/ \E e \in Editor, by \in Editor \cup {Nobody} : r = SaveOf(e, by)
           \/ \E kind \in Kinds \ {"save"}, by \in Editor \cup {Nobody}, t \in Text :
                r = Request(kind, by, t, 0, "text")
    PROVE  \A i \in Job : Quieter(i) \/ (KnownJob(i)' /\ KnowsRow(i)')
<1>1. job'[j] = r /\ \A i \in Job \ {j} : job'[i] = job[i]
  BY Typed DEF Send
<1>2. Quieter(j) \/ (KnownJob(j)' /\ KnowsRow(j)')
  <2>1. CASE \E e \in Editor, by \in Editor \cup {Nobody} : r = SaveOf(e, by)
    <3>0. PICK e \in Editor, by \in Editor \cup {Nobody} : r = SaveOf(e, by)
      BY <2>1
    <3>1. /\ r.kind = "save" /\ r.text = editor[e].draft /\ r.content = {} /\ r.at = "sent"
          /\ r.base = editor[e].base /\ r.came = editor[e].came
      BY <3>0, SaveOfFields
    <3>2. Vouches(r.base, r.came, r.text)
      BY <3>1 DEF Based
    <3>3. KnownJob(j)'
      BY <1>1, <3>1 DEF KnownJob
    <3>4. KnowsRow(j)'
      BY <1>1, <3>1, <3>2 DEF KnowsRow, Vouches, database
    <3> QED
      BY <3>3, <3>4
  <2>2. CASE \E kind \in Kinds \ {"save"}, by \in Editor \cup {Nobody}, t \in Text :
               r = Request(kind, by, t, 0, "text")
    <3>1. r.kind # "save" /\ r.content = {} /\ r.at = "sent"
      BY <2>2 DEF Request
    <3> QED
      BY <1>1, <3>1 DEF Quieter
  <2> QED
    BY <2>1, <2>2
<1> QED
  BY <1>1, <1>2 DEF Quieter

LEMMA EditorEdit ==
    ASSUME EditInv, NEW e \in Editor,
           \/ \E m \in Mark : Type(e, m)
           \/ \E j \in Job : \/ Fire(e, j) \/ Close(e, j) \/ AskRename(e, j)
                             \/ \E v \in Text : AskRestore(e, j, v)
    PROVE  Known' /\ Based'
<1>0. Inv /\ Known /\ Based /\ (\A d \in Editor : SameEditor(d))
  BY OwnSteps DEF EditInv
<1>1. UNCHANGED database
  BY DEF Type, Fire, Close, AskRename, AskRestore
<1>2. ASSUME NEW j \in Job, Fire(e, j) \/ Close(e, j)
      PROVE  (\E by \in Editor \cup {Nobody} : Send(j, SaveOf(e, by))) \/ job' = job
  BY <1>2 DEF Fire, Close
<1>3. ASSUME NEW j \in Job, AskRename(e, j) \/ \E v \in Text : AskRestore(e, j, v)
      PROVE  \E kind \in Kinds \ {"save"}, t \in Text : Send(j, Request(kind, e, t, 0, "text"))
  BY <1>3 DEF AskRename, AskRestore, Kinds, Text
<1>4. \A i \in Job : Quieter(i) \/ (KnownJob(i)' /\ KnowsRow(i)')
  <2>1. ASSUME NEW j \in Job, NEW by \in Editor \cup {Nobody}, Send(j, SaveOf(e, by))
        PROVE  \A i \in Job : Quieter(i) \/ (KnownJob(i)' /\ KnowsRow(i)')
    <3>1. PICK r : r = SaveOf(e, by)
      OBVIOUS
    <3>2. Send(j, r)
      BY <2>1, <3>1
    <3> QED
      BY <1>0, <1>1, <3>1, <3>2, SentJobs
  <2>2. ASSUME NEW j \in Job, NEW kind \in Kinds \ {"save"}, NEW t \in Text,
               Send(j, Request(kind, e, t, 0, "text"))
        PROVE  \A i \in Job : Quieter(i) \/ (KnownJob(i)' /\ KnowsRow(i)')
    <3>1. PICK r : r = Request(kind, e, t, 0, "text")
      OBVIOUS
    <3>2. Send(j, r)
      BY <2>2, <3>1
    <3> QED
      BY <1>0, <1>1, <3>1, <3>2, SentJobs
  <2>3. CASE job' = job
    BY <2>3 DEF Quieter
  <2>4. CASE \E m \in Mark : Type(e, m)
    BY <2>3, <2>4 DEF Type
  <2>5. ASSUME NEW j \in Job, Fire(e, j) \/ Close(e, j)
        PROVE  \A i \in Job : Quieter(i) \/ (KnownJob(i)' /\ KnowsRow(i)')
    BY <1>2, <2>1, <2>3, <2>5
  <2>6. ASSUME NEW j \in Job, AskRename(e, j) \/ \E v \in Text : AskRestore(e, j, v)
        PROVE  \A i \in Job : Quieter(i) \/ (KnownJob(i)' /\ KnowsRow(i)')
    BY <1>3, <2>2, <2>6
  <2> QED
    BY <2>4, <2>5, <2>6
<1> QED
  BY <1>0, <1>1, <1>4, ApartEdit

LEMMA CallEdit ==
    ASSUME EditInv, NEW j \in Job, NEW kind \in Kinds, NEW m \in Mark, Call(j, kind, m)
    PROVE  Known' /\ Based'
<1>0. Inv /\ Known /\ Based
  BY DEF EditInv
<1>1. UNCHANGED <<database, editor>> /\ kind # "save"
  BY SaveBounds DEF Call
<1>2. PICK r : r = Request(kind, Nobody, {m}, 0, "text")
  OBVIOUS
<1>3. Send(j, r) /\ kind \in Kinds \ {"save"} /\ {m} \in Text
  BY <1>1, <1>2 DEF Call, Text
<1>4. \A i \in Job : Quieter(i) \/ (KnownJob(i)' /\ KnowsRow(i)')
  BY <1>0, <1>1, <1>2, <1>3, SentJobs
<1>5. \A e \in Editor : SameEditor(e)
  BY <1>1 DEF SameEditor
<1> QED
  BY <1>0, <1>1, <1>4, <1>5, ApartEdit

LEMMA LoseEdit ==
    ASSUME EditInv, NEW e \in Editor, NEW j \in Job, Lose(e, j)
    PROVE  Known' /\ Based'
<1>0. Inv /\ Known /\ Based
  BY DEF EditInv
<1>1. (\A i \in Job : Quieter(i)) /\ UNCHANGED <<database, editor, used>>
  BY <1>0, QuietLose
<1>2. \A d \in Editor : SameEditor(d)
  BY <1>1 DEF SameEditor
<1> QED
  BY <1>0, <1>1, <1>2, ApartEdit

-----------------------------------------------------------------------------
(* Answers.                                                                *)

(* What an editor shows once a text was put in its place.                  *)
LEMMA ShowingFields ==
    ASSUME NEW r \in EditorRecord, NEW j
    PROVE  /\ Showing(r, j).draft = job[j].content /\ Showing(r, j).saved = job[j].content
           /\ Showing(r, j).base = job[j].stamp /\ Showing(r, j).presumed = r.presumed
  BY DEF Showing, EditorRecord

LEMMA SucceededFields ==
    ASSUME Inv, NEW e \in Editor, NEW j \in Job, SaveSucceeded(e, j)
    PROVE  /\ editor'[e].draft = editor[e].draft /\ editor'[e].saved = editor[e].draft
           /\ editor'[e].base = job[j].stamp /\ editor'[e].came = CameWith(e, j)
           /\ editor'[e].presumed = editor[e].presumed \cup (editor[e].draft \ job[j].text)
           /\ \A d \in Editor \ {e} : editor'[d] = editor[d]
<1> DEFINE r == [editor[e] EXCEPT
                   !.saved = editor[e].draft, !.base = job[j].stamp, !.retries = 0,
                   !.came = CameWith(e, j),
                   !.presumed = editor[e].presumed \cup (editor[e].draft \ job[j].text)]
<1>1. editor[e] \in EditorRecord
  BY Typed
<1>2. /\ r.draft = editor[e].draft /\ r.saved = editor[e].draft
      /\ r.base = job[j].stamp /\ r.came = CameWith(e, j)
      /\ r.presumed = editor[e].presumed \cup (editor[e].draft \ job[j].text)
  BY <1>1 DEF EditorRecord
<1>3. editor'[e] = r /\ \A d \in Editor \ {e} : editor'[d] = editor[d]
  BY Typed DEF SaveSucceeded
<1> HIDE DEF r
<1> QED
  BY <1>2, <1>3

LEMMA ResubmitFields ==
    ASSUME Inv, NEW e \in Editor, NEW j \in Job, Resubmit(e, j)
    PROVE  /\ editor'[e].draft = editor[e].draft /\ editor'[e].saved = editor[e].saved
           /\ editor'[e].base = job[j].stamp /\ editor'[e].came = "conflict"
           /\ editor'[e].presumed = editor[e].presumed
           /\ \A d \in Editor \ {e} : editor'[d] = editor[d]
<1> DEFINE r == [editor[e] EXCEPT !.retries = editor[e].retries + 1, !.base = job[j].stamp,
                                  !.came = "conflict"]
<1>1. editor[e] \in EditorRecord
  BY Typed
<1>2. /\ r.draft = editor[e].draft /\ r.saved = editor[e].saved
      /\ r.base = job[j].stamp /\ r.came = "conflict" /\ r.presumed = editor[e].presumed
  BY <1>1 DEF EditorRecord
<1>3. editor'[e] = r /\ \A d \in Editor \ {e} : editor'[d] = editor[d]
  BY Typed DEF Resubmit
<1> HIDE DEF r
<1> QED
  BY <1>2, <1>3

(* A refetch, or a third conflict, changes nothing that an editor has.     *)
LEMMA GiveWayFields ==
    ASSUME Inv, NEW e \in Editor, NEW j \in Job,
           GiveWay(e, j) \/ SaveRefused(e, j) \/ Renamed(e, j)
    PROVE  \A d \in Editor : SameEditor(d) /\ editor'[d].draft = editor[d].draft
<1>1. editor[e] \in EditorRecord /\ editor \in [Editor -> EditorRecord]
  BY Typed
<1>2. CASE editor' = [editor EXCEPT ![e] = [editor[e] EXCEPT !.retries = editor[e].retries + 1]]
  <2> DEFINE r == [editor[e] EXCEPT !.retries = editor[e].retries + 1]
  <2>1. /\ r.draft = editor[e].draft /\ r.saved = editor[e].saved /\ r.base = editor[e].base
        /\ r.came = editor[e].came /\ r.presumed = editor[e].presumed
    BY <1>1 DEF EditorRecord
  <2>2. editor'[e] = r /\ \A d \in Editor \ {e} : editor'[d] = editor[d]
    BY <1>1, <1>2
  <2> HIDE DEF r
  <2> QED
    BY <2>1, <2>2 DEF SameEditor
<1>3. CASE editor' = editor
  BY <1>3 DEF SameEditor
<1> QED
  BY <1>2, <1>3 DEF GiveWay, SaveRefused, Renamed

(* What the database has had, or the answer counts as saved; the base with *)
(* the text that came along, if it is on the screen.                       *)
LEMMA SucceededEdit ==
    ASSUME EditInv, NEW e \in Editor, NEW j \in Job, SaveSucceeded(e, j)
    PROVE  Known' /\ Based'
<1>0. Inv /\ Known /\ Based /\ KnownJob(j) /\ KnowsRow(j)
  BY DEF EditInv, Known, Based
<1>1. UNCHANGED database /\ job[j].kind = "save" /\ job[j].at = "ok" /\ Done(j)
  BY DEF SaveSucceeded, Answered
<1>2. \A i \in Job : Quieter(i)
  BY <1>0, <1>1, QuietRefetch
<1>3. /\ editor'[e].draft = editor[e].draft /\ editor'[e].saved = editor[e].draft
      /\ editor'[e].base = job[j].stamp /\ editor'[e].came = CameWith(e, j)
      /\ editor'[e].presumed = editor[e].presumed \cup (editor[e].draft \ job[j].text)
      /\ \A d \in Editor \ {e} : editor'[d] = editor[d]
  BY <1>0, SucceededFields
<1>4. KnownEditor(e)'
  <2>1. job[j].text \subseteq stored
    BY <1>0, <1>1 DEF KnownJob
  <2> QED
    BY <1>1, <1>3, <2>1 DEF KnownEditor, database
<1>5. Vouches(editor[e].base, editor[e].came, editor[e].draft)'
  <2>1. job[j].stamp \in 1 .. row.stamp /\ (job[j].stamp = row.stamp => job[j].content = row.content)
    BY <1>0, <1>1 DEF KnowsRow
  <2>2. CameWith(e, j) = "text" => job[j].content \subseteq editor[e].draft
    BY DEF CameWith
  <2> QED
    BY <1>1, <1>3, <2>1, <2>2 DEF Vouches, database
<1> QED
  BY <1>0, <1>1, <1>2, <1>3, <1>4, <1>5, ApartEdit DEF SameEditor

LEMMA ResubmitEdit ==
    ASSUME EditInv, NEW e \in Editor, NEW j \in Job, Resubmit(e, j)
    PROVE  Known' /\ Based'
<1>0. Inv /\ Known /\ Based /\ KnownEditor(e) /\ KnowsRow(j)
  BY DEF EditInv, Known, Based
<1>1. UNCHANGED database /\ job[j].at = "conflict"
  BY DEF Resubmit, Answered
<1>2. /\ editor'[e].saved = editor[e].saved /\ editor'[e].presumed = editor[e].presumed
      /\ editor'[e].base = job[j].stamp /\ editor'[e].came = "conflict"
      /\ \A d \in Editor \ {e} : editor'[d] = editor[d]
  BY <1>0, ResubmitFields
<1>3. job[j].stamp \in 1 .. row.stamp
  BY <1>0, <1>1 DEF KnowsRow
<1>4. KnownEditor(e)' /\ Vouches(editor[e].base, editor[e].came, editor[e].draft)'
  BY <1>0, <1>1, <1>2, <1>3 DEF KnownEditor, Vouches, database
<1>5. /\ job'[j].kind = "save" /\ job'[j].content = {} /\ job'[j].at = "sent"
      /\ job'[j].base = job[j].stamp /\ job'[j].came = "conflict"
      /\ \A i \in Job \ {j} : job'[i] = job[i]
  <2>1. job'[j] = Request("save", e, editor[e].draft, job[j].stamp, "conflict")
        /\ \A i \in Job \ {j} : job'[i] = job[i]
    BY <1>0, Typed DEF Resubmit
  <2> QED
    BY <2>1 DEF Request
<1>6. KnownJob(j)' /\ KnowsRow(j)'
  BY <1>1, <1>3, <1>5 DEF KnownJob, KnowsRow, Vouches, database
<1> QED
  BY <1>0, <1>1, <1>2, <1>4, <1>5, <1>6, ApartEdit DEF SameEditor, Quieter

LEMMA GiveWayEdit ==
    ASSUME EditInv, NEW e \in Editor, NEW j \in Job,
           GiveWay(e, j) \/ SaveRefused(e, j) \/ Renamed(e, j)
    PROVE  Known' /\ Based'
<1>0. Inv /\ Known /\ Based
  BY DEF EditInv
<1>1. UNCHANGED database /\ Refetch(e, j)
  BY DEF GiveWay, SaveRefused, Renamed
<1>2. (\A i \in Job : Quieter(i)) /\ \A d \in Editor : SameEditor(d)
  BY <1>0, <1>1, QuietRefetch, GiveWayFields
<1> QED
  BY <1>0, <1>1, <1>2, ApartEdit

(* Another text is shown, with the stamp that came with it.                *)
LEMMA ShowEdit ==
    ASSUME EditInv, NEW e \in Editor, NEW j \in Job, Adopt(e, j) \/ Restored(e, j)
    PROVE  Known' /\ Based'
<1>0. Inv /\ Known /\ Based /\ KnownJob(j) /\ KnowsRow(j) /\ editor \in [Editor -> EditorRecord]
  BY Typed DEF EditInv, Known, Based
<1>1. UNCHANGED database /\ job[j].at = "ok" /\ Done(j)
  BY DEF Adopt, Restored, Answered
<1>2. \A i \in Job : Quieter(i)
  BY <1>0, <1>1, QuietRefetch
<1>3. CASE editor' = editor
  BY <1>0, <1>1, <1>2, <1>3, ApartEdit DEF SameEditor
<1>4. CASE editor' # editor
  <2>1. editor'[e] = Showing(editor[e], j) /\ \A d \in Editor \ {e} : editor'[d] = editor[d]
    BY <1>0, <1>4 DEF Adopt, Restored
  <2>2. /\ editor'[e].draft = job[j].content /\ editor'[e].saved = job[j].content
        /\ editor'[e].base = job[j].stamp
    BY <1>0, <2>1, ShowingFields
  <2>3. KnownEditor(e)'
    BY <1>0, <1>1, <2>2 DEF KnownEditor, KnownJob, database
  <2>4. Vouches(editor[e].base, editor[e].came, editor[e].draft)'
    BY <1>0, <1>1, <2>2 DEF KnowsRow, Vouches, database
  <2> QED
    BY <1>0, <1>1, <1>2, <2>1, <2>3, <2>4, ApartEdit DEF SameEditor
<1> QED
  BY <1>3, <1>4

-----------------------------------------------------------------------------
(* The server.  What it does to a request under way.                       *)

LEMMA ReadFields ==
    ASSUME Inv, NEW j \in Job, Read(j)
    PROVE  /\ job'[j].kind = job[j].kind /\ job'[j].by = job[j].by /\ job'[j].text = job[j].text
           /\ job'[j].base = job[j].base /\ job'[j].came = job[j].came
           /\ job'[j].content = row.content /\ job'[j].stamp = row.stamp
           /\ job'[j].at = IF job[j].kind = "fetch" THEN "ok" ELSE "read"
           /\ \A i \in Job \ {j} : job'[i] = job[i]
<1> DEFINE place == IF job[j].kind = "fetch" THEN "ok" ELSE "read"
           r == [job[j] EXCEPT !.content = row.content, !.stamp = row.stamp, !.at = place]
<1>1. job[j] \in JobRecord
  BY Typed
<1>2. /\ r.kind = job[j].kind /\ r.by = job[j].by /\ r.text = job[j].text
      /\ r.base = job[j].base /\ r.came = job[j].came
      /\ r.content = row.content /\ r.stamp = row.stamp /\ r.at = place
  <2> HIDE DEF place
  <2> QED
    BY <1>1 DEF JobRecord
<1>3. job'[j] = r /\ \A i \in Job \ {j} : job'[i] = job[i]
  BY Typed DEF Read
<1> HIDE DEF r
<1> QED
  BY <1>2, <1>3

LEMMA TakeFields ==
    ASSUME Inv, NEW j \in Job, Take(j)
    PROVE  /\ job'[j].kind = job[j].kind /\ job'[j].by = job[j].by /\ job'[j].text = job[j].text
           /\ job'[j].base = job[j].base /\ job'[j].came = job[j].came
           /\ job'[j].content = Loaded(j) /\ job'[j].at = "locked"
           /\ \A i \in Job \ {j} : job'[i] = job[i]
<1> DEFINE r == [job[j] EXCEPT !.at = "locked", !.content = Loaded(j), !.stamp = row.stamp]
<1>1. job[j] \in JobRecord
  BY Typed
<1>2. /\ r.kind = job[j].kind /\ r.by = job[j].by /\ r.text = job[j].text
      /\ r.base = job[j].base /\ r.came = job[j].came
      /\ r.content = Loaded(j) /\ r.at = "locked"
  BY <1>1 DEF JobRecord
<1>3. job'[j] = r /\ \A i \in Job \ {j} : job'[i] = job[i]
  BY Typed DEF Take
<1> HIDE DEF r
<1> QED
  BY <1>2, <1>3

LEMMA RefuseFields ==
    ASSUME Inv, NEW j \in Job, Refuse(j)
    PROVE  /\ \/ job'[j] = Idle
              \/ /\ job'[j].kind = job[j].kind /\ job'[j].by = job[j].by
                 /\ job'[j].text = job[j].text /\ job'[j].content = job[j].content
                 /\ job'[j].at = "conflict" /\ job'[j].stamp = row.stamp
           /\ \A i \in Job \ {j} : job'[i] = job[i]
<1> DEFINE r == [job[j] EXCEPT !.at = "conflict", !.stamp = row.stamp]
<1>1. job[j] \in JobRecord
  BY Typed
<1>2. /\ r.kind = job[j].kind /\ r.by = job[j].by /\ r.text = job[j].text
      /\ r.content = job[j].content /\ r.at = "conflict" /\ r.stamp = row.stamp
  BY <1>1 DEF JobRecord
<1>3. (job'[j] = r \/ job'[j] = Idle) /\ \A i \in Job \ {j} : job'[i] = job[i]
  BY Typed DEF Refuse, Done
<1> HIDE DEF r
<1> QED
  BY <1>2, <1>3

LEMMA WriteFields ==
    ASSUME Inv, NEW j \in Job, Write(j)
    PROVE  /\ job'[j].kind = job[j].kind /\ job'[j].by = job[j].by /\ job'[j].text = job[j].text
           /\ job'[j].base = job[j].base /\ job'[j].came = job[j].came
           /\ job'[j].content = job[j].content /\ job'[j].at = "committed"
           /\ \A i \in Job \ {j} : job'[i] = job[i]
<1> DEFINE r == [job[j] EXCEPT !.at = "committed"]
<1>1. job[j] \in JobRecord
  BY Typed
<1>2. /\ r.kind = job[j].kind /\ r.by = job[j].by /\ r.text = job[j].text
      /\ r.base = job[j].base /\ r.came = job[j].came
      /\ r.content = job[j].content /\ r.at = "committed"
  BY <1>1 DEF JobRecord
<1>3. job'[j] = r /\ \A i \in Job \ {j} : job'[i] = job[i]
  BY Typed DEF Write
<1> HIDE DEF r
<1> QED
  BY <1>2, <1>3

LEMMA RejectFields ==
    ASSUME Inv, NEW j \in Job, Reject(j)
    PROVE  /\ \/ job'[j] = Idle
              \/ job'[j].at = "refused" /\ job'[j].content = job[j].content
           /\ \A i \in Job \ {j} : job'[i] = job[i]
<1> DEFINE r == [job[j] EXCEPT !.at = "refused"]
<1>1. job[j] \in JobRecord
  BY Typed
<1>2. r.at = "refused" /\ r.content = job[j].content
  BY <1>1 DEF JobRecord
<1>3. (job'[j] = r \/ job'[j] = Idle) /\ \A i \in Job \ {j} : job'[i] = job[i]
  BY Typed DEF Reject, Done
<1> HIDE DEF r
<1> QED
  BY <1>2, <1>3

LEMMA RefreshFields ==
    ASSUME Inv, NEW j \in Job, Refresh(j)
    PROVE  /\ \/ job'[j] = Idle
              \/ /\ job'[j].kind = job[j].kind /\ job'[j].by = job[j].by
                 /\ job'[j].text = job[j].text /\ job'[j].at = "ok"
                 /\ job'[j].content = row.content /\ job'[j].stamp = row.stamp
           /\ \A i \in Job \ {j} : job'[i] = job[i]
<1> DEFINE r == [job[j] EXCEPT !.at = "ok", !.content = row.content, !.stamp = row.stamp]
<1>1. job[j] \in JobRecord
  BY Typed
<1>2. /\ r.kind = job[j].kind /\ r.by = job[j].by /\ r.text = job[j].text
      /\ r.at = "ok" /\ r.content = row.content /\ r.stamp = row.stamp
  BY <1>1 DEF JobRecord
<1>3. (job'[j] = r \/ job'[j] = Idle) /\ \A i \in Job \ {j} : job'[i] = job[i]
  BY Typed DEF Refresh
<1> HIDE DEF r
<1> QED
  BY <1>2, <1>3

(* What a write leaves in the row.                                         *)
LEMMA Written ==
    ASSUME Inv, NEW j \in Job, Write(j)
    PROVE  /\ \/ row' = row \/ (row'.content = NewText(j) /\ row'.stamp = row.stamp + 1)
           /\ row'.content = NewText(j) \/ (row'.content = row.content /\ NewText(j) = job[j].content)
           /\ row'.content \subseteq row.content \cup job[j].content \cup job[j].text
           /\ stored' = stored \cup row'.content
<1>1. row' = IF Touched(j) THEN [content |-> NewText(j), stamp |-> row.stamp + 1] ELSE row
  BY DEF Write
<1>2. NewText(j) \subseteq job[j].content \cup job[j].text
  BY DEF NewText
<1>3. ~Touched(j) => NewText(j) = job[j].content
  BY DEF Touched
<1> QED
  BY <1>1, <1>2, <1>3 DEF Write

(* A request the server did not touch knows as much, if the row is as it   *)
(* was, or written by another one while this one did not hold it.          *)
LEMMA OthersKnow ==
    ASSUME Inv, NEW i \in Job, KnownJob(i), KnowsRow(i), job'[i] = job[i],
           stored \subseteq stored', row.stamp \in Nat,
           \/ row' = row
           \/ row'.stamp = row.stamp + 1 /\ job[i].at # "locked"
    PROVE  KnownJob(i)' /\ KnowsRow(i)'
<1>1. KnownJob(i)'
  BY DEF KnownJob
<1>2. CASE row' = row
  BY <1>1, <1>2 DEF KnowsRow, Vouches
<1>3. CASE row'.stamp = row.stamp + 1 /\ job[i].at # "locked"
  BY <1>1, <1>3 DEF KnowsRow, Vouches
<1> QED
  BY <1>2, <1>3

LEMMA SameEditors ==
    ASSUME Known, Based, editor' = editor, stored \subseteq stored', row.stamp \in Nat,
           row' = row \/ row'.stamp = row.stamp + 1
    PROVE  \A e \in Editor :
               KnownEditor(e)' /\ Vouches(editor[e].base, editor[e].came, editor[e].draft)'
<1> TAKE e \in Editor
<1>1. KnownEditor(e)'
  BY DEF Known, KnownEditor
<1>2. Vouches(editor[e].base, editor[e].came, editor[e].draft)'
  BY DEF Based, Vouches
<1> QED
  BY <1>1, <1>2

(* A write moves every stamp out of date, or changes nothing; nobody else  *)
(* holds the row.                                                          *)
LEMMA WriteEdit ==
    ASSUME EditInv, NEW j \in Job, Write(j)
    PROVE  Known' /\ Based'
<1>0. /\ Inv /\ Known /\ Based /\ HolderKnowsTheRow /\ KnownJob(j) /\ row.stamp \in Nat
      /\ editor' = editor /\ job[j].at = "locked" /\ lock = j
  BY Typed DEF EditInv, Known, Inv, Write, HolderKnowsTheRow
<1>1. /\ row' = row \/ row'.stamp = row.stamp + 1
      /\ row'.content = NewText(j) \/ (row'.content = row.content /\ NewText(j) = job[j].content)
      /\ stored' = stored \cup row'.content
  BY <1>0, Written
<1>2. /\ job'[j].kind = job[j].kind /\ job'[j].text = job[j].text
      /\ job'[j].content = job[j].content /\ job'[j].at = "committed"
      /\ \A i \in Job \ {j} : job'[i] = job[i]
  BY <1>0, WriteFields
<1>3. KnownJob(j)' /\ KnowsRow(j)'
  <2>1. job[j].kind = "save" => job[j].text \subseteq stored'
    <3> SUFFICES ASSUME job[j].kind = "save" PROVE job[j].text \subseteq stored'
      OBVIOUS
    <3>1. NewText(j) = job[j].text
      BY DEF NewText
    <3> QED
      BY <1>0, <1>1, <3>1 DEF KnownJob
  <2>2. KnownJob(j)'
    BY <1>0, <1>1, <1>2, <2>1 DEF KnownJob
  <2>3. KnowsRow(j)'
    BY <1>2 DEF KnowsRow
  <2> QED
    BY <2>2, <2>3
<1>4. ASSUME NEW i \in Job \ {j} PROVE KnownJob(i)' /\ KnowsRow(i)'
  <2>1. job[i].at # "locked" /\ KnownJob(i) /\ KnowsRow(i)
    BY <1>0 DEF HolderKnowsTheRow, Known, Based
  <2>2. job'[i] = job[i] /\ stored \subseteq stored'
    BY <1>1, <1>2
  <2> QED
    BY <1>0, <1>1, <2>1, <2>2, OthersKnow
<1>5. \A e \in Editor :
        KnownEditor(e)' /\ Vouches(editor[e].base, editor[e].came, editor[e].draft)'
  BY <1>0, <1>1, SameEditors
<1>6. (row.content \subseteq stored)' /\ row'.stamp # 0
  BY <1>0, <1>1 DEF Based
<1> QED
  BY <1>3, <1>4, <1>5, <1>6 DEF Known, Based

(* A save that gets the row has the row's stamp, so that what its base     *)
(* vouches for is what it overwrites.                                      *)
LEMMA TakeKnows ==
    ASSUME EditInv, NEW j \in Job, Take(j)
    PROVE  KnownJob(j)' /\ KnowsRow(j)' /\ UNCHANGED <<row, stored>>
<1>0. Inv /\ Known /\ Based /\ KnownJob(j) /\ KnowsRow(j)
  BY DEF EditInv, Known, Based
<1>1. row' = row /\ stored' = stored /\ ~Stale(j) /\ Ready(j)
  BY DEF Take
<1>2. /\ job'[j].kind = job[j].kind /\ job'[j].text = job[j].text /\ job'[j].base = job[j].base
      /\ job'[j].came = job[j].came /\ job'[j].content = Loaded(j) /\ job'[j].at = "locked"
  BY <1>0, TakeFields
<1>3. Loaded(j) \subseteq stored
  BY <1>0 DEF Loaded, Known, KnownJob
<1>4. KnownJob(j)'
  BY <1>1, <1>2, <1>3 DEF KnownJob
<1>5. job[j].kind = "save" => Vouches(job[j].base, job[j].came, job[j].text)
  BY <1>0, <1>1 DEF Ready, LoadsFirst, KnowsRow
<1>6. job[j].kind = "save" => job[j].base = row.stamp
  BY <1>0, <1>1, <1>5 DEF Stale, Vouches
<1>7. KnowsRow(j)'
  BY <1>1, <1>2, <1>5, <1>6 DEF KnowsRow, Vouches
<1> QED
  BY <1>1, <1>4, <1>7

LEMMA RefreshKnows ==
    ASSUME EditInv, NEW j \in Job, Refresh(j)
    PROVE  KnownJob(j)' /\ KnowsRow(j)' /\ UNCHANGED <<row, stored>>
<1>0. /\ Inv /\ Known /\ Based /\ KnownJob(j) /\ row.stamp \in Nat /\ row.content \subseteq stored
      /\ job[j].at = "committed" /\ row' = row /\ stored' = stored
  BY Typed DEF EditInv, Known, Refresh, database
<1>1. \/ job'[j] = Idle
      \/ /\ job'[j].kind = job[j].kind /\ job'[j].text = job[j].text /\ job'[j].at = "ok"
         /\ job'[j].content = row.content /\ job'[j].stamp = row.stamp
  BY <1>0, RefreshFields
<1>2. KnownJob(j)'
  BY <1>0, <1>1, IdleFields DEF KnownJob
<1>3. KnowsRow(j)'
  <2>1. row.stamp \in 1 .. row.stamp
    BY <1>0 DEF Based
  <2> QED
    BY <1>0, <1>1, <2>1, IdleFields DEF KnowsRow
<1> QED
  BY <1>0, <1>2, <1>3

LEMMA PlainKnows ==
    ASSUME EditInv, NEW j \in Job, Read(j) \/ Refuse(j) \/ Reject(j)
    PROVE  KnownJob(j)' /\ KnowsRow(j)' /\ UNCHANGED <<row, stored>>
<1>0. Inv /\ Known /\ Based /\ KnownJob(j) /\ row.stamp \in Nat /\ row.content \subseteq stored
  BY Typed DEF EditInv, Known
<1>1. row' = row /\ stored' = stored
  BY DEF Read, Refuse, Reject, database
<1>2. row.stamp \in 1 .. row.stamp
  BY <1>0 DEF Based
<1>3. CASE Read(j)
  <2>1. job[j].kind # "save"
    BY <1>3 DEF Read, LoadsFirst
  <2>2. /\ job'[j].kind # "save" /\ job'[j].content = row.content /\ job'[j].stamp = row.stamp
    BY <1>0, <1>3, <2>1, ReadFields
  <2> QED
    BY <1>0, <1>1, <1>2, <2>2 DEF KnownJob, KnowsRow
<1>4. CASE Refuse(j)
  <2>1. \/ job'[j] = Idle
        \/ /\ job'[j].content = job[j].content
           /\ job'[j].at = "conflict" /\ job'[j].stamp = row.stamp
    BY <1>0, <1>4, RefuseFields
  <2> QED
    BY <1>0, <1>1, <1>2, <2>1, IdleFields DEF KnownJob, KnowsRow
<1>5. CASE Reject(j)
  <2>1. job'[j] = Idle \/ (job'[j].at = "refused" /\ job'[j].content = job[j].content)
    BY <1>0, <1>5, RejectFields
  <2> QED
    BY <1>0, <1>1, <2>1, IdleFields DEF KnownJob, KnowsRow
<1> QED
  BY <1>3, <1>4, <1>5

LEMMA ServeEdit ==
    ASSUME EditInv, NEW j \in Job, Serve(j)
    PROVE  Known' /\ Based'
<1>0. Inv /\ Known /\ Based /\ row.stamp \in Nat /\ row.stamp # 0 /\ row.content \subseteq stored
  BY Typed DEF EditInv, Known, Based
<1>1. CASE ~Write(j)
  <2>1. KnownJob(j)' /\ KnowsRow(j)' /\ row' = row /\ stored' = stored
    BY <1>1, TakeKnows, RefreshKnows, PlainKnows DEF Serve
  <2>2. editor' = editor
    BY <1>1 DEF Serve, Read, Take, Refuse, Reject, Refresh
  <2>3. \A i \in Job \ {j} : job'[i] = job[i]
    BY <1>0, <1>1, ReadFields, TakeFields, RefuseFields, RejectFields, RefreshFields DEF Serve
  <2>4. ASSUME NEW i \in Job \ {j} PROVE KnownJob(i)' /\ KnowsRow(i)'
    <3>1. KnownJob(i) /\ KnowsRow(i) /\ job'[i] = job[i] /\ stored \subseteq stored'
      BY <1>0, <2>1, <2>3 DEF Known, Based
    <3> QED
      BY <1>0, <2>1, <3>1, OthersKnow
  <2>5. \A e \in Editor :
          KnownEditor(e)' /\ Vouches(editor[e].base, editor[e].came, editor[e].draft)'
    BY <1>0, <2>1, <2>2, SameEditors
  <2> QED
    BY <1>0, <2>1, <2>4, <2>5 DEF Known, Based
<1> QED
  BY <1>1, WriteEdit

-----------------------------------------------------------------------------
(* The editors' invariant, and what it gives.                              *)

LEMMA EditStart == Init => EditInv
<1> SUFFICES ASSUME Init PROVE EditInv
  OBVIOUS
<1>1. row.stamp = 1 /\ row.content = {}
  BY DEF Init
<1>2. \A e \in Editor : editor[e].base = 1 /\ editor[e].saved = {}
  BY DEF Init
<1>3. \A j \in Job : job[j] = Idle
  BY DEF Init
<1>4. \A j \in Job : KnowsRow(j) /\ KnownJob(j)
  BY <1>3, IdleFields DEF KnowsRow, KnownJob
<1> QED
  BY <1>1, <1>2, <1>4, InvInit DEF EditInv, Known, Based, KnownEditor, Vouches

LEMMA EditStep == EditInv /\ [Next]_vars => EditInv'
<1> SUFFICES ASSUME EditInv, [Next]_vars PROVE EditInv'
  OBVIOUS
<1>0. Inv /\ Inv' /\ Known /\ Based
  BY InvStep DEF EditInv
<1>1. CASE SnapshotAges \/ UNCHANGED vars
  <2>1. UNCHANGED <<row, stored, job, editor>>
    BY <1>1 DEF SnapshotAges, vars, database
  <2> QED
    BY <1>0, <2>1 DEF EditInv, Known, KnownJob, KnownEditor, Based, KnowsRow, Vouches
<1>2. ASSUME NEW e \in Editor, NEW j \in Job, Handle(e, j) PROVE Known' /\ Based'
  BY <1>2, SucceededEdit, ResubmitEdit, GiveWayEdit, ShowEdit DEF Handle
<1>3. ASSUME NEW e \in Editor, NEW m \in Mark, Type(e, m) PROVE Known' /\ Based'
  BY <1>3, EditorEdit
<1>4. ASSUME NEW e \in Editor, NEW j \in Job,
             Fire(e, j) \/ Close(e, j) \/ AskRename(e, j) \/ \E v \in Text : AskRestore(e, j, v)
      PROVE  Known' /\ Based'
  BY <1>4, EditorEdit
<1>5. CASE Next
  BY <1>0, <1>1, <1>2, <1>3, <1>4, <1>5, LoseEdit, CallEdit, ServeEdit DEF Next, EditInv
<1> QED
  BY <1>1, <1>5

LEMMA EditInvHolds == Spec => []EditInv
<1> QED
  BY EditStart, EditStep, PTL DEF Spec

(* What was typed leaves an editor only by a restore, once the server has  *)
(* had it, or after the answer to another save counted it as saved: a text *)
(* from outside is shown in a clean editor only, and what a clean editor   *)
(* takes for saved is of no other kind (editor-pane.tsx:332-342).          *)
THEOREM KeystrokesKeptHolds == Spec => KeystrokesKept
<1> DEFINE Keeps(e) ==
             \/ editor[e].draft \ editor'[e].draft \subseteq stored \cup editor[e].presumed
             \/ \E j \in Job : Restored(e, j)
<1>1. ASSUME EditInv, [Next]_vars, NEW e \in Editor PROVE Keeps(e)
  <2>0. Inv /\ KnownEditor(e) /\ editor \in [Editor -> EditorRecord]
    BY <1>1, Typed DEF EditInv, Known
  <2>1. CASE editor[e].draft \subseteq editor'[e].draft
    BY <2>1
  <2>2. ASSUME NEW d \in Editor, NEW j \in Job, Adopt(d, j) PROVE Keeps(e)
    <3>1. CASE editor'[e] = editor[e]
      BY <3>1
    <3>2. CASE editor'[e] # editor[e]
      <4>1. e = d /\ editor[e].draft = editor[e].saved
        BY <2>0, <2>2, <3>2 DEF Adopt, Clean, Dirty
      <4> QED
        BY <2>0, <4>1 DEF KnownEditor
    <3> QED
      BY <3>1, <3>2
  <2>3. ASSUME NEW d \in Editor, NEW j \in Job, Restored(d, j) PROVE Keeps(e)
    <3>1. CASE e = d
      BY <2>3, <3>1
    <3>2. CASE e # d
      <4>1. editor'[e] = editor[e]
        BY <2>0, <2>3, <3>2 DEF Restored
      <4> QED
        BY <4>1
    <3> QED
      BY <3>1, <3>2
  <2>4. ASSUME NEW d \in Editor,
               \/ \E m \in Mark : Type(d, m)
               \/ \E j \in Job : \/ Fire(d, j) \/ Close(d, j) \/ AskRename(d, j)
                                 \/ \E v \in Text : AskRestore(d, j, v)
        PROVE  editor[e].draft \subseteq editor'[e].draft
    BY <2>0, <2>4, OwnSteps DEF SameEditor
  <2>5. ASSUME NEW d \in Editor, NEW j \in Job,
               \/ SaveSucceeded(d, j) \/ Resubmit(d, j) \/ GiveWay(d, j)
               \/ SaveRefused(d, j) \/ Renamed(d, j)
        PROVE  editor[e].draft \subseteq editor'[e].draft
    <3>1. CASE SaveSucceeded(d, j)
      BY <2>0, <3>1, SucceededFields
    <3>2. CASE Resubmit(d, j)
      BY <2>0, <3>2, ResubmitFields
    <3>3. CASE GiveWay(d, j) \/ SaveRefused(d, j) \/ Renamed(d, j)
      BY <2>0, <3>3, GiveWayFields
    <3> QED
      BY <2>5, <3>1, <3>2, <3>3
  <2>6. ASSUME NEW j \in Job,
               Serve(j) \/ (\E k \in Kinds, m \in Mark : Call(j, k, m)) \/ \E d \in Editor : Lose(d, j)
        PROVE  editor' = editor
    BY <2>6 DEF Serve, Read, Take, Refuse, Write, Reject, Refresh, Call, Lose
  <2>7. CASE editor' = editor
    BY <2>7
  <2> HIDE DEF Keeps
  <2>8. CASE UNCHANGED vars \/ SnapshotAges
    BY <2>7, <2>8 DEF vars, SnapshotAges
  <2>9. ASSUME NEW d \in Editor, NEW j \in Job, Handle(d, j) PROVE Keeps(e)
    BY <2>1, <2>2, <2>3, <2>5, <2>9 DEF Handle
  <2>10. ASSUME NEW d \in Editor,
                \/ \E m \in Mark : Type(d, m)
                \/ \E j \in Job : \/ Fire(d, j) \/ Close(d, j) \/ AskRename(d, j)
                                  \/ \E v \in Text : AskRestore(d, j, v)
         PROVE  Keeps(e)
    BY <2>1, <2>4, <2>10
  <2>11. CASE Next
    BY <2>6, <2>7, <2>8, <2>9, <2>10, <2>11 DEF Next
  <2> QED
    BY <1>1, <2>8, <2>11
<1>2. EditInv /\ [Next]_vars => [\A e \in Editor : Keeps(e)]_vars
  BY <1>1
<1> QED
  BY <1>2, EditInvHolds, PTL DEF Spec, KeystrokesKept

(* A save whose base came with its text overwrites no words its editor was *)
(* not shown, whoever writes at whatever moment: with the row locked its   *)
(* base is the row's, and such a base vouches for the row's words          *)
(* (note_service.py:287-304).                                              *)
THEOREM NoSilentOverwriteHolds == Spec => NoSilentOverwrite
<1>1. ASSUME EditInv, NEW j \in Job, Write(j), job[j].kind = "save", job[j].came = "text"
      PROVE  row.content \subseteq row'.content
  <2>1. Inv /\ KnowsRow(j) /\ job[j].at = "locked"
    BY <1>1 DEF EditInv, Based, Write
  <2>2. row.content \subseteq job[j].text
    BY <1>1, <2>1 DEF KnowsRow, Vouches
  <2>3. NewText(j) = job[j].text
    BY <1>1 DEF NewText
  <2> QED
    BY <1>1, <2>1, <2>2, <2>3, Written
<1>2. EditInv => [\A j \in Job : Write(j) /\ job[j].kind = "save" /\ job[j].came = "text" =>
                    row.content \subseteq row'.content]_vars
  BY <1>1
<1> QED
  BY <1>2, EditInvHolds, PTL DEF NoSilentOverwrite
=============================================================================
