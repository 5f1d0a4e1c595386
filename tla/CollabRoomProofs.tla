-------------------------- MODULE CollabRoomProofs --------------------------
(***************************************************************************)
(* Proofs about CollabRoom, for every set of workers and every bound: of   *)
(* the whole specification first, then of a steady room, one that all the  *)
(* workers have open already and no REST save touches.  There SteadyInv    *)
(* follows every keystroke from the replica it was made in through its     *)
(* worker's outbox and the queues to the others, and WriteInv from there   *)
(* into the row.                                                           *)
(***************************************************************************)
EXTENDS CollabRoom, FiniteSetTheorems, SequenceTheorems, TLAPS

(* Every item id that a document, a message or the seed mentions is the id *)
(* of an insertion that was made: without this a replica's text would not  *)
(* be made of tokens at all, so TypeOK is not inductive alone.  n is the   *)
(* number of insertions made.                                              *)
Item == [text : Text, deps : SUBSET Nat]
KnownDoc(d, n) == d \in Doc /\ d.has \subseteq 1..n /\ d.wait \subseteq 1..n
KnownMessage(m, n) == m.type = "update" => m.update.has \subseteq 1..n
KnownQueue(q, n) == \A i \in 1..Len(q) : KnownMessage(q[i], n)

SeedKnown(ids, n) == ids \in SUBSET Nat /\ (ids # NoSeed => ids \subseteq 1..n)
DocsKnown(docs, n) == docs \in [Worker -> Doc] /\ \A w \in Worker : KnownDoc(docs[w], n)
OutKnown(out, n) ==
    out \in [Worker -> SUBSET Updates] /\ \A w \in Worker : \A m \in out[w] : KnownMessage(m, n)
QueuesKnown(inb, n) ==
    inb \in [Worker -> Seq(Messages)] /\ \A w \in Worker : KnownQueue(inb[w], n)

(* The type invariant in three parts: what the CRDT is made of, the rooms, *)
(* and the row with those who write it.                                    *)
DocsOK ==
    /\ items \in Seq(Item)
    /\ dirty \in SUBSET Worker
    /\ SeedKnown(seed, Len(items))
    /\ DocsKnown(doc, Len(items))
    /\ QueuesKnown(inbox, Len(items))
    /\ OutKnown(outbox, Len(items))

RoomOK ==
    /\ phase \in [Worker -> Phases]
    /\ holders \in SUBSET Worker
    /\ fresh \in SUBSET Worker
    /\ listening \in SUBSET Worker
    /\ synced \in SUBSET Worker
    /\ clients \in [Worker -> Nat]
    /\ opens \in Nat
    /\ leaves \in Nat
    /\ crashes \in Nat

RowOK ==
    /\ row \in Text
    /\ lock \in Worker \cup {Nobody}
    /\ taken \in SUBSET Save
    /\ dbText \in [Worker -> Text]
    /\ loop \in [Worker -> LoopStates]
    /\ sample \in [Worker -> Text]
    /\ final \in [Worker -> Text]
    /\ save \in [Save -> [pc : {"idle"}, at : {Nobody}] \cup
                          [pc : {"committed", "done"}, at : Worker]]
    /\ typed \in SUBSET EditToken
    /\ fails \in Nat

TypeInv == DocsOK /\ RoomOK /\ RowOK

LEMMA TypeInvImpliesTypeOK == TypeInv => TypeOK
<1> SUFFICES ASSUME TypeInv PROVE TypeOK
  OBVIOUS
<1>1. DOMAIN items = 1..Len(items)
  BY LenProperties DEF TypeInv, DocsOK
<1>2. /\ seed = NoSeed \/ seed \subseteq DOMAIN items
      /\ \A w \in Worker : doc[w].has \cup doc[w].wait \subseteq DOMAIN items
  BY <1>1 DEF TypeInv, DocsOK, SeedKnown, DocsKnown, KnownDoc
<1> QED
  BY <1>2 DEF TypeInv, TypeOK, DocsOK, RoomOK, RowOK, Item, SeedKnown, DocsKnown,
     QueuesKnown, OutKnown

-----------------------------------------------------------------------------
(* What the operators of the model return. *)

LEMMA LenIsNat == ASSUME DocsOK PROVE Len(items) \in Nat
  BY LenProperties DEF DocsOK

(* The text a document shows is a text of the note. *)
LEMMA TextOfIsText ==
    ASSUME items \in Seq(Item), NEW d, KnownDoc(d, Len(items))
    PROVE  TextOf(d) \in Text
<1>1. \A i \in 1..Len(items) : items[i] \in Item
  BY ElementOfSeq
<1>2. Visible(d) \subseteq 1..Len(items)
  BY DEF Visible, KnownDoc
<1>3. \A i \in Visible(d) : items[i].text \subseteq Token
  BY <1>1, <1>2 DEF Item, Text
<1> QED
  BY <1>3 DEF TextOf, Text

LEMMA ReplicaText == ASSUME TypeInv, NEW w \in Worker PROVE TextOf(doc[w]) \in Text
  BY TextOfIsText DEF TypeInv, DocsOK, DocsKnown

(* What is known stays known when more is inserted. *)
LEMMA KnownGrows ==
    ASSUME NEW m \in Nat, NEW n \in Nat, m <= n
    PROVE  /\ \A ids : SeedKnown(ids, m) => SeedKnown(ids, n)
           /\ \A d : KnownDoc(d, m) => KnownDoc(d, n)
           /\ \A docs : DocsKnown(docs, m) => DocsKnown(docs, n)
           /\ \A inb : QueuesKnown(inb, m) => QueuesKnown(inb, n)
           /\ \A out : OutKnown(out, m) => OutKnown(out, n)
<1>1. 1..m \subseteq 1..n
  OBVIOUS
<1> QED
  BY <1>1 DEF SeedKnown, KnownDoc, DocsKnown, QueuesKnown, OutKnown, KnownQueue, KnownMessage

(* One more insertion, by someone who has seen all of a known document. *)
LEMMA InsertIsItem ==
    ASSUME items \in Seq(Item), NEW deps \in SUBSET Nat, NEW text \in Text
    PROVE  LET more == Append(items, [text |-> text, deps |-> deps])
           IN  /\ more \in Seq(Item)
               /\ Len(more) = Len(items) + 1
               /\ Len(items) \in Nat
               /\ NextItem \in Nat
               /\ NextItem \in 1..Len(more)
<1>1. [text |-> text, deps |-> deps] \in Item
  BY DEF Item
<1> HIDE DEF Item
<1> QED
  BY <1>1, LenProperties DEF NextItem

(* Merging a known update into a known document gives a known document.   *)
LEMMA MergeIsKnown ==
    ASSUME NEW n \in Nat, NEW d, KnownDoc(d, n), NEW u \in Update, u.has \subseteq 1..n
    PROVE  KnownDoc(Merge(d, u), n)
<1> DEFINE pool == d.wait \cup u.has
           ready == {i \in pool : items[i].deps \subseteq d.has \cup pool}
<1>1. Merge(d, u) = [has |-> d.has \cup ready, gone |-> d.gone \cup u.gone,
                     wait |-> pool \ (d.has \cup ready)]
  BY DEF Merge
<1>2. pool \subseteq 1..n /\ ready \subseteq pool /\ d.has \subseteq 1..n
  BY DEF KnownDoc
<1>3. d.gone \in SUBSET Nat /\ u.gone \in SUBSET Nat
  BY DEF KnownDoc, Doc, Update
<1> HIDE DEF pool, ready
<1>4. /\ d.has \cup ready \in SUBSET (1..n)
      /\ d.gone \cup u.gone \in SUBSET Nat
      /\ pool \ (d.has \cup ready) \in SUBSET (1..n)
  BY <1>2, <1>3
<1>5. Merge(d, u) \in Doc
  BY <1>1, <1>4 DEF Doc
<1>6. Merge(d, u).has = d.has \cup ready /\ Merge(d, u).wait = pool \ (d.has \cup ready)
  BY <1>1
<1> QED
  BY <1>4, <1>5, <1>6 DEF KnownDoc

(* A saved body is a text of the note. *)
LEMMA SaveBodyIsText == ASSUME NEW s \in Save PROVE SaveBody[s] \in Text
  BY DEF Text, Token

LEMMA MessageFields ==
    ASSUME NEW m \in Messages
    PROVE  /\ m.type = "update" => m.update \in Update
           /\ m.type = "reset" => m.save \in Save
  BY DEF Messages, Updates

(* Publishing a known message leaves the queues known ... *)
LEMMA PostedIsKnown ==
    ASSUME NEW n, NEW inb, QueuesKnown(inb, n), NEW w \in Worker,
           NEW m \in Messages, KnownMessage(m, n)
    PROVE  QueuesKnown(Posted(inb, w, m), n)
<1>1. Posted(inb, w, m) \in [Worker -> Seq(Messages)]
  BY DEF Posted, QueuesKnown
<1>2. ASSUME NEW v \in Worker PROVE KnownQueue(Posted(inb, w, m)[v], n)
  <2>1. inb[v] \in Seq(Messages) /\ KnownQueue(inb[v], n)
    BY DEF QueuesKnown
  <2>2. Posted(inb, w, m)[v] \in {inb[v], Append(inb[v], m)}
    BY DEF Posted
  <2>3. KnownQueue(Append(inb[v], m), n)
    <3> HIDE DEF Messages
    <3> QED
      BY <2>1, AppendProperties DEF KnownQueue
  <2> QED
    BY <2>1, <2>2, <2>3
<1> QED
  BY <1>1, <1>2 DEF QueuesKnown

(* ... and so does taking the next one out. *)
LEMMA ConsumedIsKnown ==
    ASSUME NEW n, QueuesKnown(inbox, n), NEW w \in Worker, inbox[w] # <<>>
    PROVE  /\ Head(inbox[w]) \in Messages
           /\ KnownMessage(Head(inbox[w]), n)
           /\ QueuesKnown(Consumed(w), n)
<1>1. inbox[w] \in Seq(Messages) /\ KnownQueue(inbox[w], n)
  BY DEF QueuesKnown
<1>2. Head(inbox[w]) \in Messages /\ Tail(inbox[w]) \in Seq(Messages)
  BY <1>1, HeadTailProperties
<1>3. KnownMessage(Head(inbox[w]), n)
  BY <1>1 DEF KnownQueue
<1>4. KnownQueue(Tail(inbox[w]), n)
  BY <1>1, HeadTailProperties DEF KnownQueue
<1>5. Consumed(w) \in [Worker -> Seq(Messages)]
  BY <1>2 DEF Consumed, QueuesKnown
<1>6. \A v \in Worker : Consumed(w)[v] \in {inbox[v], Tail(inbox[w])}
  BY DEF Consumed, QueuesKnown
<1> QED
  BY <1>2, <1>3, <1>4, <1>5, <1>6 DEF QueuesKnown

LEMMA ResetNamesSave ==
    ASSUME TypeInv, NEW w \in Worker, Arrived(w, "reset")
    PROVE  Head(inbox[w]).save \in Save
  BY ConsumedIsKnown, MessageFields DEF TypeInv, DocsOK, Arrived

-----------------------------------------------------------------------------
(* Where rooms, holders and clients are concerned. *)

LEMMA RoomStep == ASSUME TypeInv, Next PROVE RoomOK'
<1> USE DEF RoomOK, Phases, Initialising, Closing
<1>0. RoomOK
  BY DEF TypeInv
<1>1. ASSUME NEW w \in Worker, Opening(w) PROVE RoomOK'
  <2>1. CASE OpenRoom(w)
    BY <1>0, <2>1 DEF OpenRoom, Go, redis
  <2>2. CASE ReadRow(w)
    BY <1>0, <2>2 DEF ReadRow, Go, redis, budget
  <2>3. CASE SeedOwn(w)
    BY <1>0, <2>3 DEF SeedOwn, Serve, Go, Hold, budget
  <2>4. CASE SeedFromDead(w)
    BY <1>0, <2>4 DEF SeedFromDead, Serve, Go, Hold, budget
  <2>5. CASE SeedAdopted(w)
    BY <1>0, <2>5 DEF SeedAdopted, Go, Hold, budget
  <2>6. CASE Subscribe(w)
    BY <1>0, <2>6 DEF Subscribe, redis, budget
  <2>7. CASE Ask(w)
    BY <1>0, <2>7 DEF Ask, Go, redis, budget
  <2>8. CASE CaughtUp(w)
    BY <1>0, <2>8 DEF CaughtUp, Serve, Go, redis, budget
  <2>9. CASE ResetStaleSeed(w)
    <3>1. phase' = [phase EXCEPT ![w] = "open"] /\ clients' = [clients EXCEPT ![w] = @ + 1]
      BY <2>9 DEF ResetStaleSeed, Serve, Go
    <3>2. UNCHANGED <<holders, fresh, listening, synced, opens, leaves, crashes>>
      BY <2>9 DEF ResetStaleSeed, redis, budget
    <3> QED
      BY <1>0, <3>1, <3>2
  <2>10. CASE GiveUp(w)
    BY <1>0, <2>10 DEF GiveUp, Serve, Go, redis, budget
  <2> QED
    BY <1>1, <2>1, <2>2, <2>3, <2>4, <2>5, <2>6, <2>7, <2>8, <2>9, <2>10 DEF Opening, Seeding
<1>2. ASSUME NEW w \in Worker, ClientStep(w) PROVE RoomOK'
  <2>1. CASE Join(w)
    BY <1>0, <2>1 DEF Join, redis, budget
  <2>2. CASE Edit(w)
    BY <1>0, <2>2 DEF Edit, redis
  <2>3. CASE Leave(w)
    BY <1>0, <2>3 DEF Leave, Go, redis
  <2> QED
    BY <1>2, <2>1, <2>2, <2>3 DEF ClientStep
<1>3. ASSUME NEW w \in Worker, Teardown(w) PROVE RoomOK'
  BY <1>0, <1>3 DEF Teardown, FinalSample, NothingToWrite, FinalCommit, FinalRefused, FinalFail,
                    Release, Unlock, Go, redis, budget
<1>4. ASSUME NEW w \in Worker, Fanout(w) PROVE RoomOK'
  BY <1>0, <1>4 DEF Fanout, Publish, Receive, ReceiveUpdate, ReceiveRequest,
     ReceiveReset, redis, local, budget
<1>5. ASSUME NEW w \in Worker, PersistLoop(w) PROVE RoomOK'
  BY <1>0, <1>5 DEF PersistLoop, LoopGoesOn, Tick, KeepAlive, Hold, PersistSample, PersistSkip,
                    PersistCommit, PersistRefused, PersistFail, PersistDone, redis, local, budget
<1>6. ASSUME NEW w \in Worker, Crash(w) \/ HeartbeatLapses(w) PROVE RoomOK'
  <2>1. CASE Crash(w)
    BY <1>0, <2>1 DEF Crash, Go, redis
  <2>2. CASE HeartbeatLapses(w)
    BY <1>0, <2>2 DEF HeartbeatLapses, local, budget
  <2> QED
    BY <1>6, <2>1, <2>2
<1>7. ASSUME NEW s \in Save, SyncRoom(s) \/ \E w \in Worker : CommitSave(s, w) PROVE RoomOK'
  <2>1. UNCHANGED <<phase, holders, fresh, listening, synced, clients, opens, leaves, crashes>>
    BY <1>7 DEF SyncRoom, CommitSave, redis, local, budget
  <2> QED
    BY <1>0, <2>1
<1>8. CASE SeedExpires \/ LockExpires
  BY <1>0, <1>8 DEF SeedExpires, LockExpires, local, budget
<1> QED
  BY <1>1, <1>2, <1>3, <1>4, <1>5, <1>6, <1>7, <1>8 DEF Next

-----------------------------------------------------------------------------
(* Where the row and those who write it are concerned. *)

LEMMA RowStep == ASSUME TypeInv, Next PROVE RowOK'
<1> USE DEF RowOK
<1>0. RowOK
  BY DEF TypeInv
<1>a. \A w \in Worker : TextOf(doc[w]) \in Text
  BY ReplicaText
<1>1. ASSUME NEW w \in Worker, Opening(w) PROVE RowOK'
  <2>1. CASE ReadRow(w)
    BY <1>0, <2>1 DEF ReadRow, redis, writers, budget
  <2>2. CASE ResetStaleSeed(w)
    <3>1. UNCHANGED <<row, lock, taken, dbText, loop, sample, final, save, typed, fails>>
      BY <2>2 DEF ResetStaleSeed, redis, writers, budget
    <3> QED
      BY <1>0, <3>1
  <2>3. CASE SeedFromDead(w)
    <3>1. UNCHANGED <<row, lock, taken, dbText, loop, sample, final, save, typed, fails>>
      BY <2>3 DEF SeedFromDead, redis, writers, budget
    <3> QED
      BY <1>0, <3>1
  <2>4. CASE ~(ReadRow(w) \/ ResetStaleSeed(w) \/ SeedFromDead(w))
    <3>1. UNCHANGED <<row, lock, taken, dbText, loop, sample, final, save, typed, fails>>
      BY <1>1, <2>4 DEF Opening, Seeding, OpenRoom, SeedOwn, SeedAdopted, Subscribe,
         Ask, CaughtUp,
                        GiveUp, redis, writers, budget
    <3> QED
      BY <1>0, <3>1
  <2> QED
    BY <2>1, <2>2, <2>3, <2>4
<1>2. ASSUME NEW w \in Worker, ClientStep(w) PROVE RowOK'
  <2>1. UNCHANGED <<row, lock, taken, dbText, loop, sample, final, save, fails>>
    BY <1>2 DEF ClientStep, Join, Edit, Leave, redis, writers, budget
  <2>2. typed' \in SUBSET EditToken
    BY <1>0, <1>2 DEF ClientStep, Join, Edit, Leave, budget
  <2> QED
    BY <1>0, <2>1, <2>2
<1>3. ASSUME NEW w \in Worker, Teardown(w) PROVE RowOK'
  <2>1. CASE FinalSample(w)
    BY <1>0, <1>a, <2>1 DEF FinalSample, budget
  <2>2. CASE NothingToWrite(w)
    BY <1>0, <2>2 DEF NothingToWrite, redis, writers, budget
  <2>3. CASE FinalCommit(w)
    BY <1>0, <2>3 DEF FinalCommit, redis, budget, Text
  <2>4. CASE FinalFail(w) \/ FinalRefused(w)
    BY <1>0, <2>4 DEF FinalFail, FinalRefused, redis, budget, Text
  <2>5. CASE Release(w)
    BY <1>0, <2>5 DEF Release, writers, budget
  <2>6. CASE Unlock(w)
    BY <1>0, <2>6 DEF Unlock, budget, Text, LoopStates
  <2> QED
    BY <1>3, <2>1, <2>2, <2>3, <2>4, <2>5, <2>6 DEF Teardown
<1>4. ASSUME NEW w \in Worker, Fanout(w) PROVE RowOK'
  <2>1. UNCHANGED <<row, lock, dbText, loop, sample, final, save, typed, fails>>
    BY <1>4 DEF Fanout, Publish, Receive, ReceiveUpdate, ReceiveRequest, ReceiveReset,
       redis, local, writers, budget
  <2>2. taken' \in SUBSET Save
    <3>1. CASE ReceiveReset(w)
      BY <1>0, <3>1, ResetNamesSave DEF ReceiveReset, MaybeApplyReset
    <3>2. CASE ReceiveUpdate(w) \/ ReceiveRequest(w) \/ Publish(w)
      BY <1>0, <3>2 DEF ReceiveUpdate, ReceiveRequest, Publish, redis
    <3> QED
      BY <1>4, <3>1, <3>2 DEF Fanout, Receive
  <2> QED
    BY <1>0, <2>1, <2>2
<1>5. ASSUME NEW w \in Worker, PersistLoop(w) PROVE RowOK'
  <2> USE DEF LoopStates
  <2>1. CASE Tick(w)
    BY <1>0, <2>1 DEF Tick, redis, local, budget
  <2>2. CASE KeepAlive(w)
    BY <1>0, <2>2 DEF KeepAlive, Hold, local, budget
  <2>3. CASE PersistSample(w)
    BY <1>0, <1>a, <2>3 DEF PersistSample, budget
  <2>4. CASE PersistSkip(w)
    BY <1>0, <2>4 DEF PersistSkip, redis, local, budget
  <2>5. CASE PersistCommit(w)
    BY <1>0, <2>5 DEF PersistCommit, PersistDone, redis, Text
  <2>6. CASE PersistRefused(w)
    BY <1>0, <2>6 DEF PersistRefused, PersistDone, redis, Text
  <2>7. CASE PersistFail(w)
    BY <1>0, <2>7 DEF PersistFail, PersistDone, redis, Text
  <2> QED
    BY <1>5, <2>1, <2>2, <2>3, <2>4, <2>5, <2>6, <2>7 DEF PersistLoop, LoopGoesOn
<1>6. ASSUME NEW w \in Worker, Crash(w) \/ HeartbeatLapses(w) PROVE RowOK'
  BY <1>0, <1>6 DEF Crash, HeartbeatLapses, redis, local, writers, budget, LoopStates, Text
<1>7. ASSUME NEW s \in Save, SyncRoom(s) PROVE RowOK'
  <2>1. UNCHANGED <<row, lock, dbText, loop, sample, final, typed, fails>>
    BY <1>7 DEF SyncRoom, writers, budget
  <2>2. taken' \in SUBSET Save
    BY <1>0, <1>7 DEF SyncRoom, MaybeApplyReset
  <2>3. save' = [save EXCEPT ![s].pc = "done"] /\ save[s].pc = "committed"
    BY <1>7 DEF SyncRoom
  <2>4. save[s] \in [pc : {"committed", "done"}, at : Worker]
    BY <1>0, <2>3
  <2>5. [save[s] EXCEPT !.pc = "done"] \in [pc : {"committed", "done"}, at : Worker]
    BY <2>4
  <2> QED
    BY <1>0, <2>1, <2>2, <2>3, <2>5
<1>8. ASSUME NEW s \in Save, NEW w \in Worker, CommitSave(s, w) PROVE RowOK'
  BY <1>0, <1>8, SaveBodyIsText DEF CommitSave, redis, local, writers, budget
<1>9. CASE SeedExpires \/ LockExpires
  BY <1>0, <1>9 DEF SeedExpires, LockExpires, local, writers, budget
<1> QED
  BY <1>1, <1>2, <1>3, <1>4, <1>5, <1>6, <1>7, <1>8, <1>9 DEF Next

-----------------------------------------------------------------------------
(* Where the CRDT is concerned. *)

LEMMA UpdateMsgIsKnown ==
    ASSUME NEW n \in Nat, NEW has \in SUBSET (1..n), NEW gone \in SUBSET Nat
    PROVE  /\ UpdateMsg(has, gone) \in Updates /\ UpdateMsg(has, gone) \in Messages
           /\ KnownMessage(UpdateMsg(has, gone), n)
<1>1. [has |-> has, gone |-> gone] \in Update
  BY DEF Update
<1> QED
  BY <1>1 DEF UpdateMsg, Messages, Updates, KnownMessage

LEMMA RequestIsKnown ==
    ASSUME NEW n, NEW w \in Worker
    PROVE  /\ [type |-> "request", from |-> w] \in Messages
           /\ KnownMessage([type |-> "request", from |-> w], n)
  BY DEF Messages, KnownMessage

LEMMA ResetIsKnown ==
    ASSUME NEW n, NEW s \in Save
    PROVE  /\ [type |-> "reset", save |-> s] \in Messages
           /\ KnownMessage([type |-> "reset", save |-> s], n)
  BY DEF Messages, KnownMessage

(* What a room is to publish stays known with one known update more, or less. *)
LEMMA ToPublishIsKnown ==
    ASSUME NEW n, OutKnown(outbox, n), NEW w \in Worker, NEW m \in Updates, KnownMessage(m, n)
    PROVE  /\ OutKnown(ToPublish(w, m), n)
           /\ OutKnown([outbox EXCEPT ![w] = @ \ {m}], n)
<1> HIDE DEF Updates
<1>1. outbox[w] \cup {m} \in SUBSET Updates /\ outbox[w] \ {m} \in SUBSET Updates
  BY DEF OutKnown
<1> QED
  BY <1>1 DEF OutKnown, ToPublish

(* Every document is one of the replicas' or the empty one, so replacing   *)
(* one replica by a known document is enough.                              *)
LEMMA ReplacedDoc ==
    ASSUME NEW n, DocsKnown(doc, n), NEW w \in Worker, NEW d, KnownDoc(d, n)
    PROVE  DocsKnown([doc EXCEPT ![w] = d], n)
  BY DEF DocsKnown, KnownDoc

LEMMA EmptyDocIsKnown == ASSUME NEW n PROVE KnownDoc(EmptyDoc, n)
  BY DEF KnownDoc, EmptyDoc, Doc

(* A reset keeps everything known, whatever document it starts from. *)
LEMMA ResetLocalKeepsDocs ==
    ASSUME DocsOK, NEW w \in Worker, NEW d, KnownDoc(d, Len(items)),
           NEW text \in Text, NEW observed,
           ResetLocal(w, d, text, observed),
           SeedKnown(seed', Len(items)), QueuesKnown(inbox', Len(items))
    PROVE  DocsOK'
<1> DEFINE n == Len(items)
<1>0. n \in Nat /\ OutKnown(outbox, n)
  BY LenIsNat DEF DocsOK
<1>1. dirty' \in SUBSET Worker
  BY DEF ResetLocal, DocsOK
<1>2. CASE TextOf(d) = text
  <2>1. items' = items /\ outbox' = outbox /\ doc' = [doc EXCEPT ![w] = d]
    BY <1>2 DEF ResetLocal
  <2>2. DocsKnown(doc', n)
    BY <2>1, ReplacedDoc DEF DocsOK
  <2> QED
    BY <1>0, <1>1, <2>1, <2>2 DEF DocsOK
<1>3. CASE TextOf(d) # text
  <2> DEFINE new == IF text = {} THEN {} ELSE {NextItem}
             reset == [d EXCEPT !.has = @ \cup new, !.gone = @ \cup Visible(d)]
  <2>1. /\ items' = IF text = {} THEN items ELSE Insert(d, text)
        /\ doc' = [doc EXCEPT ![w] = reset]
        /\ outbox' = IF observed THEN ToPublish(w, UpdateMsg(new, Visible(d))) ELSE outbox
    BY <1>3 DEF ResetLocal
  <2>2. /\ d.has \in SUBSET Nat /\ d.gone \in SUBSET Nat /\ d.wait \in SUBSET Nat
        /\ d = [has |-> d.has, gone |-> d.gone, wait |-> d.wait]
        /\ d.has \subseteq 1..n /\ d.wait \subseteq 1..n
    BY DEF KnownDoc, Doc
  <2>3. /\ items' \in Seq(Item)
        /\ Len(items') \in Nat
        /\ n <= Len(items')
        /\ new \subseteq 1..Len(items')
    <3>1. CASE text = {}
      BY <1>0, <2>1, <3>1 DEF DocsOK
    <3>2. CASE text # {}
      <4>1. items' = Append(items, [text |-> text, deps |-> d.has]) /\ new = {NextItem}
        BY <2>1, <3>2 DEF Insert
      <4>2. /\ items' \in Seq(Item) /\ Len(items') = n + 1
            /\ NextItem \in 1..Len(items')
        BY <2>2, <4>1, InsertIsItem DEF DocsOK
      <4> QED
        BY <1>0, <4>1, <4>2
    <3> QED
      BY <3>1, <3>2
  <2>4. 1..n \subseteq 1..Len(items')
    BY <1>0, <2>3
  <2>5. Visible(d) \in SUBSET Nat
    BY <2>2 DEF Visible
  <2>6. KnownDoc(reset, Len(items'))
    <3> HIDE DEF new
    <3>1. d \in Doc
      BY DEF KnownDoc
    <3>2. reset \in Doc /\ reset.has = d.has \cup new /\ reset.wait = d.wait
      <4>1. d.has \cup new \in SUBSET Nat /\ d.gone \cup Visible(d) \in SUBSET Nat
        BY <2>2, <2>3, <2>5
      <4> QED
        BY <3>1, <4>1 DEF Doc
    <3> QED
      BY <2>2, <2>3, <2>4, <3>2 DEF KnownDoc
  <2>7. /\ DocsKnown(doc, Len(items'))
        /\ QueuesKnown(inbox', Len(items'))
        /\ OutKnown(outbox, Len(items'))
        /\ SeedKnown(seed', Len(items'))
    BY <1>0, <2>3, KnownGrows DEF DocsOK
  <2> HIDE DEF new, reset
  <2>8. DocsKnown(doc', Len(items'))
    BY <2>1, <2>6, <2>7, ReplacedDoc
  <2>9. OutKnown(outbox', Len(items'))
    BY <2>1, <2>3, <2>5, <2>7, UpdateMsgIsKnown, ToPublishIsKnown
  <2> QED
    BY <1>1, <2>3, <2>7, <2>8, <2>9 DEF DocsOK
<1> QED
  BY <1>2, <1>3

LEMMA MaybeApplyResetKeepsDocs ==
    ASSUME DocsOK, NEW w \in Worker, NEW s \in Save,
           MaybeApplyReset(w, s), seed' = seed, QueuesKnown(inbox', Len(items))
    PROVE  DocsOK'
<1>1. KnownDoc(doc[w], Len(items)) /\ SeedKnown(seed', Len(items))
  BY DEF DocsOK, DocsKnown
<1>2. CASE WinsReset(w, s)
  <2>1. ResetLocal(w, doc[w], SaveBody[s], Observed(w))
    BY <1>2 DEF MaybeApplyReset
  <2> QED
    BY <1>1, <2>1, SaveBodyIsText, ResetLocalKeepsDocs
<1>3. CASE ~WinsReset(w, s)
  BY <1>1, <1>3 DEF MaybeApplyReset, DocsOK
<1> QED
  BY <1>2, <1>3

(* A stored seed merges into a replica. *)
LEMMA SeededIsKnown ==
    ASSUME DocsOK, NEW w \in Worker, seed # NoSeed
    PROVE  KnownDoc(Seeded(w), Len(items))
<1>1. seed \in SUBSET Nat /\ seed \subseteq 1..Len(items)
  BY DEF DocsOK, SeedKnown
<1>2. [has |-> seed, gone |-> {}] \in Update
  BY <1>1 DEF Update
<1>3. KnownDoc(doc[w], Len(items)) /\ Len(items) \in Nat
  BY LenIsNat DEF DocsOK, DocsKnown
<1> QED
  BY <1>1, <1>2, <1>3, MergeIsKnown DEF Seeded

LEMMA DocsStep == ASSUME TypeInv, Next PROVE DocsOK'
<1> DEFINE n == Len(items)
<1>0. DocsOK /\ n \in Nat
  BY LenIsNat DEF TypeInv
<1>a. ASSUME dirty' \in SUBSET Worker, UNCHANGED <<items, seed, inbox, outbox, doc>> PROVE DocsOK'
  BY <1>0, <1>a DEF DocsOK
<1>b. \A w \in Worker : KnownDoc(doc[w], n) /\ doc[w] \in Doc /\ doc[w].has \subseteq 1..n
  BY <1>0 DEF DocsOK, DocsKnown, KnownDoc
<1>c. \A w \in Worker : dbText[w] \in Text
  BY DEF TypeInv, RowOK
<1>d. /\ dirty \in SUBSET Worker /\ QueuesKnown(inbox, n) /\ OutKnown(outbox, n)
      /\ SeedKnown(seed, n) /\ DocsKnown(doc, n)
  BY <1>0 DEF DocsOK
<1>1. ASSUME NEW w \in Worker, Opening(w) PROVE DocsOK'
  <2>1. CASE OpenRoom(w)
    <3>1. doc' = [doc EXCEPT ![w] = EmptyDoc]
      BY <2>1 DEF OpenRoom
    <3>2. DocsKnown(doc', n)
      BY <1>d, <3>1, ReplacedDoc, EmptyDocIsKnown
    <3>3. UNCHANGED <<items, seed, inbox, outbox, dirty>>
      BY <2>1 DEF OpenRoom, redis
    <3> QED
      BY <1>0, <3>2, <3>3 DEF DocsOK
  <2>2. CASE SeedOwn(w)
    <3> DEFINE mine == IF dbText[w] = {} THEN {} ELSE {NextItem}
               own == [doc[w] EXCEPT !.has = @ \cup mine]
    <3>1. /\ items' = IF mine = {} THEN items
                      ELSE Append(items, [text |-> dbText[w], deps |-> {}])
          /\ seed' = mine
          /\ doc' = [doc EXCEPT ![w] = own]
          /\ UNCHANGED <<inbox, outbox, dirty>>
      <4>1. items' = IF mine = {} THEN items
                     ELSE Append(items, [text |-> dbText[w], deps |-> {}])
        BY <2>2 DEF SeedOwn
      <4>2. seed' = mine /\ UNCHANGED <<inbox, outbox, dirty>>
        BY <2>2 DEF SeedOwn
      <4>3. doc' = [doc EXCEPT ![w] = own]
        BY <2>2 DEF SeedOwn
      <4> QED
        BY <4>1, <4>2, <4>3
    <3>2. /\ items' \in Seq(Item)
          /\ Len(items') \in Nat
          /\ n <= Len(items')
          /\ mine \subseteq 1..Len(items')
      <4>1. CASE mine = {}
        BY <1>0, <3>1, <4>1 DEF DocsOK
      <4>2. CASE mine # {}
        <5>1. items' = Append(items, [text |-> dbText[w], deps |-> {}]) /\ mine = {NextItem}
          BY <3>1, <4>2
        <5>2. /\ items' \in Seq(Item) /\ Len(items') = n + 1
              /\ NextItem \in 1..Len(items')
          BY <1>0, <1>c, <5>1, InsertIsItem DEF DocsOK
        <5> QED
          BY <1>0, <5>1, <5>2
      <4> QED
        BY <4>1, <4>2
    <3>3. 1..n \subseteq 1..Len(items') /\ 1..Len(items') \subseteq Nat
      BY <1>0, <3>2
    <3> HIDE DEF mine
    <3>4. KnownDoc(own, Len(items'))
      <4>1. doc[w].has \cup mine \in SUBSET Nat /\ doc[w].has \subseteq 1..n /\ doc[w].wait \subseteq 1..n
        BY <1>b, <3>2, <3>3 DEF KnownDoc
      <4>2. own \in Doc /\ own.has = doc[w].has \cup mine /\ own.wait = doc[w].wait
        BY <1>b, <4>1 DEF Doc
      <4> QED
        BY <3>2, <3>3, <4>1, <4>2 DEF KnownDoc
    <3>5. /\ DocsKnown(doc, Len(items')) /\ QueuesKnown(inbox, Len(items'))
          /\ OutKnown(outbox, Len(items'))
      BY <1>0, <1>d, <3>2, KnownGrows
    <3> HIDE DEF own
    <3>6. DocsKnown(doc', Len(items')) /\ SeedKnown(seed', Len(items'))
      BY <3>1, <3>2, <3>3, <3>4, <3>5, ReplacedDoc DEF SeedKnown
    <3> QED
      BY <1>d, <3>1, <3>2, <3>5, <3>6 DEF DocsOK
  <2>3. CASE SeedFromDead(w)
    <3>1. /\ ResetLocal(w, Seeded(w), dbText[w], TRUE)
          /\ seed # NoSeed /\ seed' = seed /\ inbox' = inbox
      BY <2>3 DEF SeedFromDead, Adopts
    <3> QED
      BY <1>0, <1>c, <1>d, <3>1, SeededIsKnown, ResetLocalKeepsDocs
  <2>4. CASE SeedAdopted(w)
    <3>1. /\ doc' = [doc EXCEPT ![w] = Seeded(w)]
          /\ seed # NoSeed
          /\ UNCHANGED <<items, seed, inbox, outbox, dirty>>
      BY <2>4 DEF SeedAdopted, Adopts
    <3>2. DocsKnown(doc', n)
      BY <1>0, <1>d, <3>1, SeededIsKnown, ReplacedDoc
    <3> QED
      BY <1>0, <3>1, <3>2 DEF DocsOK
  <2>5. CASE Ask(w)
    <3>1. /\ inbox' = Posted(inbox, w, [type |-> "request", from |-> w])
          /\ UNCHANGED <<items, outbox, seed, doc, dirty>>
      BY <2>5 DEF Ask, redis
    <3>2. QueuesKnown(inbox', n)
      BY <1>d, <3>1, RequestIsKnown, PostedIsKnown
    <3> QED
      BY <1>0, <3>1, <3>2 DEF DocsOK
  <2>6. CASE ResetStaleSeed(w)
    <3>1. ResetLocal(w, doc[w], dbText[w], TRUE) /\ seed' = seed /\ inbox' = inbox
      BY <2>6 DEF ResetStaleSeed, redis
    <3> QED
      BY <1>0, <1>b, <1>c, <1>d, <3>1, ResetLocalKeepsDocs
  <2>7. CASE ReadRow(w) \/ Subscribe(w) \/ CaughtUp(w) \/ GiveUp(w)
    BY <1>a, <1>d, <2>7 DEF ReadRow, Subscribe, CaughtUp, GiveUp, redis
  <2> QED
    BY <1>1, <2>1, <2>2, <2>3, <2>4, <2>5, <2>6, <2>7 DEF Opening, Seeding
<1>2. ASSUME NEW w \in Worker, ClientStep(w) PROVE DocsOK'
  <2>1. CASE Join(w)
    BY <1>a, <1>d, <2>1 DEF Join, redis
  <2>2. CASE Edit(w)
    <3> DEFINE edited == [doc[w] EXCEPT !.has = @ \cup {NextItem}]
    <3>1. /\ \E t \in EditToken : items' = Append(items, [text |-> {t}, deps |-> doc[w].has])
          /\ doc' = [doc EXCEPT ![w] = edited]
          /\ \/ outbox' = outbox
             \/ outbox' = ToPublish(w, UpdateMsg({NextItem}, {}))
          /\ dirty' \in SUBSET Worker
          /\ seed' = seed /\ inbox' = inbox
      BY <1>d, <2>2 DEF Edit, Insert, redis
    <3>2. \A t \in EditToken : {t} \in Text
      BY DEF Text, Token
    <3>3. doc[w].has \in SUBSET Nat /\ doc[w].gone \in SUBSET Nat
      BY <1>b DEF Doc
    <3>4. /\ items' \in Seq(Item)
          /\ Len(items') = n + 1
          /\ NextItem \in 1..Len(items')
      BY <1>0, <3>1, <3>2, <3>3, InsertIsItem DEF DocsOK
    <3>5. /\ 1..n \subseteq 1..Len(items') /\ Len(items') \in Nat /\ n <= Len(items')
          /\ NextItem \in Nat
      BY <1>0, <3>4
    <3>6. /\ DocsKnown(doc, Len(items')) /\ QueuesKnown(inbox, Len(items'))
          /\ SeedKnown(seed, Len(items')) /\ OutKnown(outbox, Len(items'))
      BY <1>0, <1>d, <3>5, KnownGrows
    <3>7. KnownDoc(edited, Len(items'))
      <4>1. doc[w].has \subseteq 1..n /\ doc[w].wait \subseteq 1..n
        BY <1>b DEF KnownDoc
      <4>2. edited \in Doc /\ edited.has = doc[w].has \cup {NextItem} /\ edited.wait = doc[w].wait
        BY <1>b, <3>3, <3>5 DEF Doc
      <4> QED
        BY <3>4, <3>5, <4>1, <4>2 DEF KnownDoc
    <3> HIDE DEF edited
    <3>8. OutKnown(outbox', Len(items'))
      BY <3>1, <3>4, <3>5, <3>6, UpdateMsgIsKnown, ToPublishIsKnown
    <3>9. DocsKnown(doc', Len(items'))
      BY <3>1, <3>6, <3>7, ReplacedDoc
    <3> QED
      BY <3>1, <3>4, <3>6, <3>8, <3>9 DEF DocsOK
  <2>3. CASE Leave(w)
    <3>1. /\ inbox' \in {inbox, [inbox EXCEPT ![w] = <<>>]}
          /\ UNCHANGED <<items, outbox, seed, doc, dirty>>
      BY <2>3 DEF Leave, redis
    <3>2. QueuesKnown([inbox EXCEPT ![w] = <<>>], n)
      BY <1>d DEF QueuesKnown, KnownQueue
    <3> QED
      BY <1>0, <1>d, <3>1, <3>2 DEF DocsOK
  <2> QED
    BY <1>2, <2>1, <2>2, <2>3 DEF ClientStep
<1>3. ASSUME NEW w \in Worker, Teardown(w) PROVE DocsOK'
  <2>1. CASE Unlock(w)
    <3>1. /\ doc' = [doc EXCEPT ![w] = EmptyDoc]
          /\ dirty' = dirty \ {w}
          /\ UNCHANGED <<items, seed, inbox, outbox>>
      BY <2>1 DEF Unlock
    <3> QED
      BY <1>0, <1>d, <3>1, ReplacedDoc, EmptyDocIsKnown DEF DocsOK
  <2>2. CASE Release(w)
    <3>1. seed' \in {seed, NoSeed} /\ UNCHANGED <<items, inbox, outbox, doc, dirty>>
      BY <2>2 DEF Release, SeedLeftBy
    <3> QED
      BY <1>0, <1>d, <3>1 DEF DocsOK, SeedKnown, NoSeed
  <2>3. CASE \/ FinalSample(w) \/ NothingToWrite(w) \/ FinalCommit(w)
             \/ FinalRefused(w) \/ FinalFail(w)
    BY <1>a, <1>d, <2>3 DEF FinalSample, NothingToWrite, FinalCommit, FinalRefused,
       FinalFail, redis
  <2> QED
    BY <1>3, <2>1, <2>2, <2>3 DEF Teardown
<1>4. ASSUME NEW w \in Worker, Publish(w) PROVE DocsOK'
  <2>1. PICK m \in outbox[w] :
            outbox' = [outbox EXCEPT ![w] = @ \ {m}] /\ inbox' = Posted(inbox, w, m)
    BY <1>4 DEF Publish
  <2>2. m \in Updates /\ m \in Messages /\ KnownMessage(m, n)
    BY <1>d DEF OutKnown, Messages
  <2>3. QueuesKnown(inbox', n)
    BY <1>d, <2>1, <2>2, PostedIsKnown
  <2>4. OutKnown(outbox', n)
    BY <1>d, <2>1, <2>2, ToPublishIsKnown
  <2> QED
    BY <1>0, <1>4, <2>3, <2>4 DEF Publish, DocsOK, redis, local
<1>11. ASSUME NEW w \in Worker, Receive(w) PROVE DocsOK'
  <2>0. /\ inbox[w] # <<>>
        /\ Head(inbox[w]) \in Messages
        /\ KnownMessage(Head(inbox[w]), n)
        /\ QueuesKnown(Consumed(w), n)
    <3>1. inbox[w] # <<>>
      BY <1>11 DEF Receive, ReceiveUpdate, ReceiveRequest, ReceiveReset, Arrived
    <3> QED
      BY <1>d, <3>1, ConsumedIsKnown
  <2>1. CASE ReceiveUpdate(w)
    <3> DEFINE u == Head(inbox[w]).update
               d == Merge(doc[w], u)
    <3>1. /\ doc' = [doc EXCEPT ![w] = d]
          /\ inbox' = Consumed(w)
          /\ dirty' \in SUBSET Worker
          /\ UNCHANGED <<items, outbox, seed>>
      BY <1>d, <2>1 DEF ReceiveUpdate, redis
    <3>2. u \in Update /\ u.has \subseteq 1..n
      BY <2>0, <2>1, MessageFields DEF ReceiveUpdate, Arrived, KnownMessage
    <3>3. KnownDoc(d, n)
      BY <1>0, <1>b, <3>2, MergeIsKnown
    <3>4. DocsKnown(doc', n)
      BY <1>d, <3>1, <3>3, ReplacedDoc
    <3> QED
      BY <1>0, <1>d, <2>0, <3>1, <3>4 DEF DocsOK
  <2>2. CASE ReceiveRequest(w)
    <3>1. /\ inbox' = Posted(Consumed(w), w, UpdateMsg(doc[w].has, doc[w].gone))
          /\ UNCHANGED <<items, outbox, seed, doc, dirty>>
      BY <2>2 DEF ReceiveRequest, redis, local
    <3>2. doc[w].has \in SUBSET (1..n) /\ doc[w].gone \in SUBSET Nat
      BY <1>b DEF Doc
    <3>3. QueuesKnown(inbox', n)
      BY <1>0, <2>0, <3>1, <3>2, UpdateMsgIsKnown, PostedIsKnown
    <3> QED
      BY <1>0, <3>1, <3>3 DEF DocsOK
  <2>3. CASE ReceiveReset(w)
    <3>1. MaybeApplyReset(w, Head(inbox[w]).save) /\ seed' = seed /\ inbox' = Consumed(w)
      BY <2>3 DEF ReceiveReset
    <3>2. Head(inbox[w]).save \in Save
      BY <2>3, ResetNamesSave DEF ReceiveReset
    <3> QED
      BY <1>0, <2>0, <3>1, <3>2, MaybeApplyResetKeepsDocs
  <2> QED
    BY <1>11, <2>1, <2>2, <2>3 DEF Receive
<1>5. ASSUME NEW w \in Worker, PersistLoop(w) PROVE DocsOK'
  <2>1. dirty' \in SUBSET Worker
    BY <1>5, <1>d DEF PersistLoop, LoopGoesOn, Tick, KeepAlive, PersistSample, PersistSkip,
                      PersistCommit, PersistRefused, PersistFail, DirtyAfterWrite, local
  <2>2. UNCHANGED <<items, seed, inbox, outbox, doc>>
    BY <1>5 DEF PersistLoop, LoopGoesOn, Tick, KeepAlive, PersistSample, PersistSkip,
                PersistCommit, PersistRefused, PersistFail, PersistDone, redis, local
  <2> QED
    BY <1>a, <2>1, <2>2
<1>6. ASSUME NEW w \in Worker, Crash(w) \/ HeartbeatLapses(w) PROVE DocsOK'
  <2>1. CASE Crash(w)
    <3>1. /\ doc' = [doc EXCEPT ![w] = EmptyDoc]
          /\ inbox' = [inbox EXCEPT ![w] = <<>>]
          /\ dirty' = dirty \ {w}
          /\ UNCHANGED <<items, outbox, seed>>
      BY <2>1 DEF Crash, redis
    <3>2. QueuesKnown([inbox EXCEPT ![w] = <<>>], n)
      BY <1>d DEF QueuesKnown, KnownQueue
    <3> QED
      BY <1>0, <1>d, <3>1, <3>2, ReplacedDoc, EmptyDocIsKnown DEF DocsOK
  <2>2. CASE HeartbeatLapses(w)
    BY <1>a, <1>d, <2>2 DEF HeartbeatLapses, local
  <2> QED
    BY <1>6, <2>1, <2>2
<1>7. ASSUME NEW s \in Save, SyncRoom(s) PROVE DocsOK'
  <2> DEFINE w == save[s].at
             announced == Posted(inbox, w, [type |-> "reset", save |-> s])
  <2>1. w \in Worker
    <3>1. save[s].pc = "committed"
      BY <1>7 DEF SyncRoom
    <3>2. save[s] \in [pc : {"idle"}, at : {Nobody}] \cup [pc : {"committed", "done"}, at : Worker]
      BY DEF TypeInv, RowOK
    <3> QED
      BY <3>1, <3>2
  <2>2. QueuesKnown(announced, n)
    BY <1>d, <2>1, ResetIsKnown, PostedIsKnown
  <2>3. /\ MaybeApplyReset(w, s) \/ UNCHANGED <<taken, items, doc, dirty, outbox>>
        /\ inbox' = announced /\ seed' = seed
    BY <1>7 DEF SyncRoom
  <2> HIDE DEF w, announced
  <2>4. CASE MaybeApplyReset(w, s)
    BY <1>0, <2>1, <2>2, <2>3, <2>4, MaybeApplyResetKeepsDocs
  <2>5. CASE UNCHANGED <<taken, items, doc, dirty, outbox>>
    BY <1>0, <1>d, <2>2, <2>3, <2>5 DEF DocsOK
  <2> QED
    BY <2>3, <2>4, <2>5
<1>8. ASSUME NEW s \in Save, NEW w \in Worker, CommitSave(s, w) PROVE DocsOK'
  BY <1>a, <1>d, <1>8 DEF CommitSave, redis, local
<1>9. CASE SeedExpires
  BY <1>0, <1>d, <1>9 DEF SeedExpires, local, DocsOK, SeedKnown, NoSeed
<1>10. CASE LockExpires
  BY <1>a, <1>d, <1>10 DEF LockExpires, local
<1> QED
  BY <1>1, <1>2, <1>3, <1>4, <1>5, <1>6, <1>7, <1>8, <1>9, <1>10, <1>11 DEF Next, Fanout

-----------------------------------------------------------------------------

LEMMA TypeInvInductive == TypeInv /\ [Next]_vars => TypeInv'
<1> SUFFICES ASSUME TypeInv, [Next]_vars PROVE TypeInv'
  OBVIOUS
<1>1. CASE Next
  BY <1>1, DocsStep, RoomStep, RowStep DEF TypeInv
<1>2. CASE UNCHANGED vars
  BY <1>2 DEF TypeInv, DocsOK, RoomOK, RowOK, vars, redis, local, writers, budget
<1> QED
  BY <1>1, <1>2

LEMMA InitTyped == Init => TypeInv
<1> SUFFICES ASSUME Init PROVE TypeInv
  OBVIOUS
<1>1. Len(items) = 0 /\ items \in Seq(Item)
  BY DEF Init
<1>2. DocsOK
  <2>1. DocsKnown(doc, Len(items))
    BY EmptyDocIsKnown DEF Init, DocsKnown, KnownDoc
  <2>2. QueuesKnown(inbox, Len(items))
    <3>1. inbox = [w \in Worker |-> <<>>]
      BY DEF Init
    <3>2. <<>> \in Seq(Messages) /\ Len(<<>>) = 0
      OBVIOUS
    <3> QED
      BY <3>1, <3>2 DEF QueuesKnown, KnownQueue
  <2>3. SeedKnown(seed, Len(items)) /\ dirty \in SUBSET Worker
    BY DEF Init, SeedKnown, NoSeed
  <2> QED
    BY <1>1, <2>1, <2>2, <2>3 DEF DocsOK, OutKnown, Init
<1>3. RoomOK /\ RowOK
  BY DEF Init, RoomOK, RowOK, Phases, LoopStates, Text, Token
<1> QED
  BY <1>2, <1>3 DEF TypeInv

(* The types of the room, with what makes them inductive.                  *)
THEOREM TypeInvHolds == Spec => []TypeInv
  BY InitTyped, TypeInvInductive, PTL DEF Spec

(* The room's state always is what collab.py can hold, and no replica,     *)
(* message or seed ever names an insertion nobody made.                    *)
THEOREM TypeCorrect == Spec => []TypeOK
  BY TypeInvHolds, TypeInvImpliesTypeOK, PTL

-----------------------------------------------------------------------------
(* One periodic writer.  A worker that writes owns the lock: it took it    *)
(* before it sampled, the lock does not run out while its owner writes,    *)
(* and a final write takes it only when nobody has it.                     *)

WriterOwnsLock == \A w \in Worker : loop[w] = "writing" => lock = w

LEMMA WriterOwnsLockStep ==
    ASSUME TypeInv, WriterOwnsLock, Next PROVE WriterOwnsLock'
<1> USE DEF WriterOwnsLock
<1>0. loop \in [Worker -> LoopStates] /\ lock \in Worker \cup {Nobody} /\ Nobody \notin Worker
  BY NobodyIsNoWorker DEF TypeInv, RowOK
<1>a. ASSUME UNCHANGED <<loop, lock>> PROVE WriterOwnsLock'
  BY <1>a
<1>1. ASSUME NEW w \in Worker, Opening(w) PROVE WriterOwnsLock'
  <2>1. UNCHANGED <<loop, lock>>
    BY <1>1 DEF Opening, Seeding, OpenRoom, ReadRow, SeedOwn, SeedFromDead, SeedAdopted,
       Subscribe,
                Ask, CaughtUp, ResetStaleSeed, GiveUp, redis, writers
  <2> QED
    BY <1>a, <2>1
<1>2. ASSUME NEW w \in Worker, ClientStep(w) PROVE WriterOwnsLock'
  BY <1>a, <1>2 DEF ClientStep, Join, Edit, Leave, redis, writers
<1>3. ASSUME NEW w \in Worker, Teardown(w) PROVE WriterOwnsLock'
  <2>1. CASE FinalSample(w)
    BY <1>0, <2>1 DEF FinalSample
  <2>2. CASE Unlock(w)
    BY <1>0, <2>2 DEF Unlock, LoopStates
  <2>3. CASE NothingToWrite(w) \/ FinalCommit(w) \/ FinalRefused(w) \/ FinalFail(w) \/ Release(w)
    BY <1>a, <2>3 DEF NothingToWrite, FinalCommit, FinalRefused, FinalFail, Release,
       redis, writers
  <2> QED
    BY <1>3, <2>1, <2>2, <2>3 DEF Teardown
<1>4. ASSUME NEW w \in Worker, Fanout(w) PROVE WriterOwnsLock'
  BY <1>a, <1>4 DEF Fanout, Publish, Receive, ReceiveUpdate, ReceiveRequest,
     ReceiveReset, redis, writers
<1>5. ASSUME NEW w \in Worker, PersistLoop(w) PROVE WriterOwnsLock'
  <2>1. CASE PersistSample(w)
    BY <1>0, <2>1 DEF PersistSample, OwnsPersist
  <2>2. CASE \/ Tick(w) \/ KeepAlive(w) \/ PersistSkip(w)
             \/ PersistCommit(w) \/ PersistRefused(w) \/ PersistFail(w)
    <3>1. /\ lock' = lock
          /\ \E next \in LoopStates \ {"writing"} : loop' = [loop EXCEPT ![w] = next]
      BY <2>2 DEF Tick, KeepAlive, PersistSkip, PersistCommit, PersistRefused,
         PersistFail, PersistDone,
                  redis, LoopStates
    <3> QED
      BY <1>0, <3>1
  <2> QED
    BY <1>5, <2>1, <2>2 DEF PersistLoop, LoopGoesOn
<1>6. ASSUME NEW w \in Worker, Crash(w) \/ HeartbeatLapses(w) PROVE WriterOwnsLock'
  BY <1>0, <1>6 DEF Crash, HeartbeatLapses, redis, writers
<1>7. ASSUME NEW s \in Save, SyncRoom(s) \/ \E w \in Worker : CommitSave(s, w)
      PROVE  WriterOwnsLock'
  BY <1>a, <1>7 DEF SyncRoom, CommitSave, redis, writers
<1>8. CASE SeedExpires
  BY <1>a, <1>8 DEF SeedExpires, writers
<1>9. CASE LockExpires
  BY <1>0, <1>9 DEF LockExpires, writers
<1> QED
  BY <1>1, <1>2, <1>3, <1>4, <1>5, <1>6, <1>7, <1>8, <1>9 DEF Next

(* No two workers run the periodic write of one note at once               *)
(* (collab.py:23-28, 498-520), whatever dies and whichever lock expires.   *)
THEOREM OneWriterHolds == Spec => []OneWriter
<1>1. Init => WriterOwnsLock
  BY DEF Init, WriterOwnsLock
<1>2. TypeInv /\ WriterOwnsLock /\ [Next]_vars => WriterOwnsLock'
  BY WriterOwnsLockStep DEF WriterOwnsLock, vars, redis, writers
<1>3. WriterOwnsLock => OneWriter
  BY DEF WriterOwnsLock, OneWriter
<1> QED
  BY <1>1, <1>2, <1>3, TypeInvHolds, PTL DEF Spec

-----------------------------------------------------------------------------
(* The seed of a room in use.  From the moment it holds the seed until it  *)
(* releases it a worker is a member of the holders, so nobody else's       *)
(* release is the last and the seed stays.                                 *)

Holding(w) == InUse(w) \/ phase[w] \in {"closing", "final", "releasing"}
HoldersKeepSeed == \A w \in Worker : Holding(w) => seed # NoSeed /\ w \in holders

(* What a step does to phases, holders and seed, when it gives up neither. *)
LEMMA KeepsSeed ==
    ASSUME HoldersKeepSeed, seed' = seed, holders \subseteq holders',
           \A w \in Worker : Holding(w)' => Holding(w)
    PROVE  HoldersKeepSeed'
  BY DEF HoldersKeepSeed

LEMMA HoldersKeepSeedStep ==
    ASSUME TypeInv, HoldersKeepSeed, Next PROVE HoldersKeepSeed'
<1>0. phase \in [Worker -> Phases] /\ holders \in SUBSET Worker
  BY DEF TypeInv, RoomOK
<1> DEFINE moves(w, p) == phase' = [phase EXCEPT ![w] = p]
<1>a. ASSUME UNCHANGED <<seed, holders, phase>> PROVE HoldersKeepSeed'
  BY <1>a, KeepsSeed DEF Holding, InUse
<1>1. ASSUME NEW w \in Worker, Opening(w) PROVE HoldersKeepSeed'
  <2>1. CASE SeedOwn(w)
    <3>1. moves(w, "open") /\ holders' = holders \cup {w}
      BY <2>1 DEF SeedOwn, Serve, Go, Hold
    <3>2. seed' \in {{}, {NextItem}}
      BY <2>1 DEF SeedOwn
    <3>3. seed' # NoSeed
      BY <3>2, LenIsNat DEF NoSeed, NextItem, TypeInv
    <3>4. \A v \in Worker : Holding(v)' => Holding(v) \/ v = w
      BY <1>0, <3>1 DEF Holding, InUse
    <3> QED
      BY <3>1, <3>3, <3>4 DEF HoldersKeepSeed
  <2>2. CASE SeedFromDead(w) \/ SeedAdopted(w)
    <3>1. /\ \E p \in {"open", "asking"} : moves(w, p)
          /\ holders' = holders \cup {w}
          /\ seed' = seed
          /\ seed # NoSeed
      BY <2>2 DEF SeedFromDead, SeedAdopted, Serve, Go, Hold, Adopts
    <3>2. \A v \in Worker : Holding(v)' => Holding(v) \/ v = w
      BY <1>0, <3>1 DEF Holding, InUse
    <3> QED
      BY <3>1, <3>2 DEF HoldersKeepSeed
  <2>3. CASE OpenRoom(w) \/ ReadRow(w)
    <3>1. /\ \E p \in {"reading", "seeding"} : moves(w, p)
          /\ UNCHANGED <<seed, holders>>
      BY <2>3 DEF OpenRoom, ReadRow, Go, redis
    <3> QED
      BY <1>0, <3>1, KeepsSeed DEF Holding, InUse
  <2>4. CASE Subscribe(w)
    BY <1>a, <2>4 DEF Subscribe, redis
  <2>5. CASE Ask(w) \/ CaughtUp(w) \/ ResetStaleSeed(w) \/ GiveUp(w)
    <3>1. /\ phase[w] \in {"asking", "waiting"}
          /\ \E p \in {"waiting", "open"} : moves(w, p)
          /\ UNCHANGED <<seed, holders>>
      BY <2>5 DEF Ask, AsksNow, CaughtUp, ResetStaleSeed, GiveUp, Serve, Go, redis
    <3> QED
      BY <1>0, <3>1, KeepsSeed DEF Holding, InUse
  <2> QED
    BY <1>1, <2>1, <2>2, <2>3, <2>4, <2>5 DEF Opening, Seeding
<1>2. ASSUME NEW w \in Worker, ClientStep(w) PROVE HoldersKeepSeed'
  <2>1. CASE Leave(w)
    <3>1. /\ phase[w] = "open"
          /\ moves(w, "closing") \/ phase' = phase
          /\ UNCHANGED <<seed, holders>>
      BY <2>1 DEF Leave, Go, redis
    <3> QED
      BY <1>0, <3>1, KeepsSeed DEF Holding, InUse
  <2>2. CASE Join(w) \/ Edit(w)
    BY <1>a, <2>2 DEF Join, Edit, redis
  <2> QED
    BY <1>2, <2>1, <2>2 DEF ClientStep
<1>3. ASSUME NEW w \in Worker, Teardown(w) PROVE HoldersKeepSeed'
  <2>1. CASE Release(w)
    <3>1. /\ moves(w, "unlocking")
          /\ holders' = holders \ {w}
          /\ holders \ {w} # {} => seed' = seed
      BY <2>1 DEF Release, Go, SeedLeftBy
    <3>2. \A v \in Worker : Holding(v)' => Holding(v) /\ v # w
      BY <1>0, <3>1 DEF Holding, InUse
    <3> QED
      BY <3>1, <3>2 DEF HoldersKeepSeed
  <2>2. CASE \/ FinalSample(w) \/ NothingToWrite(w) \/ FinalCommit(w)
             \/ FinalRefused(w) \/ FinalFail(w)
    <3>1. /\ phase[w] \in {"closing", "final"}
          /\ \E p \in {"final", "releasing"} : moves(w, p)
          /\ UNCHANGED <<seed, holders>>
      BY <2>2 DEF FinalSample, NothingToWrite, FinalCommit, FinalRefused, FinalFail, Go, redis
    <3> QED
      BY <1>0, <3>1, KeepsSeed DEF Holding, InUse
  <2>3. CASE Unlock(w)
    <3>1. moves(w, "none") /\ UNCHANGED <<seed, holders>>
      BY <2>3 DEF Unlock, Go
    <3> QED
      BY <1>0, <3>1, KeepsSeed DEF Holding, InUse
  <2> QED
    BY <1>3, <2>1, <2>2, <2>3 DEF Teardown
<1>4. ASSUME NEW w \in Worker, Fanout(w) PROVE HoldersKeepSeed'
  BY <1>a, <1>4 DEF Fanout, Publish, Receive, ReceiveUpdate, ReceiveRequest,
     ReceiveReset, redis, local
<1>5. ASSUME NEW w \in Worker, PersistLoop(w) PROVE HoldersKeepSeed'
  <2>1. seed' = seed /\ holders \subseteq holders' /\ phase' = phase
    BY <1>5 DEF PersistLoop, LoopGoesOn, Tick, KeepAlive, Hold, PersistSample,
       PersistSkip, PersistCommit, PersistRefused,
                PersistFail, PersistDone, redis, local
  <2> QED
    BY <2>1, KeepsSeed DEF Holding, InUse
<1>6. ASSUME NEW w \in Worker, Crash(w) \/ HeartbeatLapses(w) PROVE HoldersKeepSeed'
  <2>1. moves(w, "dead") \/ phase' = phase
    BY <1>6 DEF Crash, HeartbeatLapses, Go, local
  <2>2. UNCHANGED <<seed, holders>>
    BY <1>6 DEF Crash, HeartbeatLapses, redis
  <2> QED
    BY <1>0, <2>1, <2>2, KeepsSeed DEF Holding, InUse
<1>7. ASSUME NEW s \in Save, SyncRoom(s) \/ \E w \in Worker : CommitSave(s, w)
      PROVE  HoldersKeepSeed'
  BY <1>a, <1>7 DEF SyncRoom, CommitSave, redis, local
<1>8. CASE SeedExpires
  <2>1. \A w \in Worker : ~HasRoom(w) /\ phase' = phase
    BY <1>8 DEF SeedExpires, local
  <2> QED
    BY <2>1 DEF HoldersKeepSeed, Holding, InUse, HasRoom, Initialising, Closing
<1>9. CASE LockExpires
  BY <1>a, <1>9 DEF LockExpires, local
<1> QED
  BY <1>1, <1>2, <1>3, <1>4, <1>5, <1>6, <1>7, <1>8, <1>9 DEF Next

(* The seed never goes while a worker uses the room (collab.py:61-64,      *)
(* 341-344), so every worker that opens it gets the same items.            *)
THEOREM SeedOutlivesRoomsHolds == Spec => []SeedOutlivesRooms
<1>1. Init => HoldersKeepSeed
  BY DEF Init, HoldersKeepSeed, Holding, InUse
<1>2. TypeInv /\ HoldersKeepSeed /\ [Next]_vars => HoldersKeepSeed'
  BY HoldersKeepSeedStep DEF HoldersKeepSeed, Holding, InUse, vars, redis, local
<1>3. HoldersKeepSeed => SeedOutlivesRooms
  BY DEF HoldersKeepSeed, Holding, SeedOutlivesRooms
<1> QED
  BY <1>1, <1>2, <1>3, TypeInvHolds, PTL DEF Spec

-----------------------------------------------------------------------------
(* A room that is torn down serves nobody (collab.py:146-151): get_room    *)
(* does not find it, and it is torn down when its last client leaves.      *)
THEOREM ServedClientsHolds == Spec => []ServedClients
<1>1. Init => ServedClients
  BY DEF Init, ServedClients
<1>2. ASSUME TypeInv, ServedClients, [Next]_vars PROVE ServedClients'
  <2>0. phase \in [Worker -> Phases] /\ clients \in [Worker -> Nat]
    BY <1>2 DEF TypeInv, RoomOK
  <2> DEFINE Up == {"open"} \cup Initialising
  <2>1. CASE UNCHANGED <<phase, clients>>
    BY <1>2, <2>1 DEF ServedClients
  <2>2. ASSUME NEW w \in Worker, clients' = clients, NEW p, phase' = [phase EXCEPT ![w] = p],
               p \in Up \/ phase[w] \notin Up
        PROVE  ServedClients'
    BY <1>2, <2>0, <2>2 DEF ServedClients, Initialising, Closing, Phases
  <2>3. ASSUME NEW w \in Worker, Serve(w) PROVE ServedClients'
    BY <1>2, <2>0, <2>3 DEF ServedClients, Serve, Go, Closing
  <2>4. ASSUME NEW w \in Worker, Opening(w) PROVE ServedClients'
    <3>1. CASE OpenRoom(w)
      BY <2>2, <3>1 DEF OpenRoom, Go, Initialising
    <3>2. CASE ReadRow(w)
      BY <2>2, <3>2 DEF ReadRow, Go, Initialising
    <3>3. CASE SeedAdopted(w)
      BY <2>2, <3>3 DEF SeedAdopted, Go, Initialising
    <3>4. CASE Ask(w)
      BY <2>2, <3>4 DEF Ask, Go, Initialising
    <3>5. CASE Subscribe(w)
      BY <2>1, <3>5 DEF Subscribe
    <3> QED
      BY <2>3, <2>4, <3>1, <3>2, <3>3, <3>4, <3>5
         DEF Opening, Seeding, SeedOwn, SeedFromDead, CaughtUp, ResetStaleSeed, GiveUp
  <2>5. ASSUME NEW w \in Worker, ClientStep(w) PROVE ServedClients'
    <3>1. CASE Join(w)
      BY <1>2, <2>0, <3>1 DEF Join, FindsRoom, ServedClients, Initialising, Closing
    <3>2. CASE Edit(w)
      BY <2>1, <3>2 DEF Edit
    <3>3. CASE Leave(w)
      <4>1. clients' = [clients EXCEPT ![w] = clients[w] - 1] /\ phase[w] = "open"
        BY <3>3 DEF Leave
      <4>2. CASE clients[w] = 1
        BY <1>2, <2>0, <3>3, <4>1, <4>2 DEF Leave, LastClient, Go, ServedClients
      <4>3. CASE clients[w] # 1
        BY <1>2, <2>0, <3>3, <4>1, <4>3 DEF Leave, LastClient, ServedClients, Closing
      <4> QED
        BY <4>2, <4>3
    <3> QED
      BY <2>5, <3>1, <3>2, <3>3 DEF ClientStep
  <2>6. ASSUME NEW w \in Worker, Teardown(w) PROVE ServedClients'
    BY <2>2, <2>6 DEF Teardown, FinalSample, NothingToWrite, FinalCommit, FinalRefused,
       FinalFail, Release, Unlock, Go,
       Initialising, Closing
  <2>7. ASSUME NEW w \in Worker, Fanout(w) \/ PersistLoop(w) \/ HeartbeatLapses(w) PROVE ServedClients'
    BY <2>1, <2>7 DEF Fanout, Publish, Receive, ReceiveUpdate, ReceiveRequest,
       ReceiveReset, PersistLoop, LoopGoesOn, Tick, KeepAlive,
       PersistSample, PersistSkip, PersistCommit, PersistRefused, PersistFail,
       PersistDone, HeartbeatLapses, local
  <2>8. ASSUME NEW w \in Worker, Crash(w) PROVE ServedClients'
    BY <1>2, <2>0, <2>8 DEF Crash, Go, ServedClients
  <2>9. CASE \/ \E s \in Save : SyncRoom(s) \/ \E w \in Worker : CommitSave(s, w)
             \/ SeedExpires \/ LockExpires \/ UNCHANGED vars
    BY <2>1, <2>9 DEF SyncRoom, CommitSave, SeedExpires, LockExpires, vars, local
  <2> QED
    BY <1>2, <2>4, <2>5, <2>6, <2>7, <2>8, <2>9 DEF Next
<1> QED
  BY <1>1, <1>2, TypeInvHolds, PTL DEF Spec

-----------------------------------------------------------------------------
(* A room that everybody has opened.  From there on, as long as no save    *)
(* comes and no worker opens the room anew, an update is the one item its  *)
(* author typed.  It is in the author's outbox and nowhere else, or it has *)
(* been published: then every open room has it, has it waiting for what it *)
(* was typed after, or has it in its queue.                                *)

Carries(m, x) == m = UpdateMsg({x}, {})

OnlyItems(w) ==
    /\ \A k \in 1..Len(inbox[w]) : \E x \in 1..Len(items) : Carries(inbox[w][k], x)
    /\ \A m \in outbox[w] : \E x \in 1..Len(items) : Carries(m, x)

Queued(w) == {x \in 1..Len(items) : \E k \in 1..Len(inbox[w]) : Carries(inbox[w][k], x)}
Sending(w) == {x \in 1..Len(items) : \E m \in outbox[w] : Carries(m, x)}
Knows(w) == doc[w].has \cup doc[w].wait \cup Queued(w)

Reached(w) == 1..Len(items) \subseteq Knows(w) \cup UNION {Sending(v) : v \in Worker}

Fed(w) ==
    IF phase[w] = "open"
    THEN w \in listening /\ Reached(w)
    ELSE /\ phase[w] \notin Initialising
         /\ w \notin listening /\ inbox[w] = <<>> /\ clients[w] = 0

(* What w has not sent, nobody else has heard of, and so whatever was      *)
(* typed after it was typed at w.                                          *)
Unheld(w) ==
    \A v \in Worker \ {w} :
        /\ Sending(v) \cap Sending(w) = {}
        /\ phase[v] = "open" => Sending(w) \cap Knows(v) = {}
Authored(w) ==
    phase[w] = "open" => \A y \in Sending(w) :
        /\ y \in doc[w].has
        /\ \A x \in 1..Len(items) : y \in items[x].deps => x \in doc[w].has

(* Nothing is hidden, what is integrated has what it was typed after, and  *)
(* what waits misses some of it.                                           *)
PlainDoc(w) ==
    /\ doc[w].gone = {}
    /\ \A x \in doc[w].has : items[x].deps \subseteq doc[w].has
    /\ \A x \in doc[w].wait : ~(items[x].deps \subseteq doc[w].has \cup doc[w].wait)

(* The first item is the seed; every other one is one keystroke, typed by  *)
(* someone who had seen nothing but earlier items, and all that those were *)
(* typed after.                                                            *)
OneKeystroke(x) == \E t \in typed : items[x].text = {t}
Earlier(x) ==
    /\ items[x].deps \subseteq 1..(x - 1)
    /\ \A y \in items[x].deps : items[y].deps \subseteq items[x].deps
Keystrokes ==
    /\ Len(items) > 0 /\ items[1].text = Body0
    /\ \A x \in 2..Len(items) : OneKeystroke(x)
    /\ \A x, y \in 2..Len(items) : x # y => items[x].text # items[y].text
    /\ \A x \in 1..Len(items) : Earlier(x)
    /\ \A t \in typed : \E x \in 2..Len(items) : items[x].text = {t}

SteadyAt(w) == OnlyItems(w) /\ Fed(w) /\ Unheld(w) /\ Authored(w) /\ PlainDoc(w)
SteadyInv == TypeInv /\ Keystrokes /\ \A w \in Worker : SteadyAt(w)

LEMMA SteadyTyped == SteadyInit => TypeInv
<1> SUFFICES ASSUME SteadyInit PROVE TypeInv
  OBVIOUS
<1> DEFINE first == [text |-> Body0, deps |-> {}]
<1>1. Body0 \in Text
  BY DEF Text, Token
<1>2. first \in Item
  BY <1>1 DEF Item
<1>3. items = <<first>> /\ Len(items) = 1
  BY DEF SteadyInit
<1> HIDE DEF first
<1>4. items \in Seq(Item)
  BY <1>2, <1>3
<1>5. /\ doc = [w \in Worker |-> [has |-> {1}, gone |-> {}, wait |-> {}]]
      /\ [has |-> {1}, gone |-> {}, wait |-> {}] \in Doc
      /\ KnownDoc([has |-> {1}, gone |-> {}, wait |-> {}], 1)
  <2>1. [EmptyDoc EXCEPT !.has = {1}] = [has |-> {1}, gone |-> {}, wait |-> {}]
    BY DEF EmptyDoc
  <2>2. [has |-> {1}, gone |-> {}, wait |-> {}] \in Doc
    BY DEF Doc
  <2> QED
    BY <2>1, <2>2 DEF SteadyInit, KnownDoc
<1>6. SeedKnown(seed, 1) /\ DocsKnown(doc, 1)
  <2>1. SeedKnown(seed, 1)
    BY DEF SeedKnown, SteadyInit
  <2> QED
    BY <1>5, <2>1 DEF DocsKnown
<1>7. QueuesKnown(inbox, 1) /\ OutKnown(outbox, 1)
  <2>1. \A w \in Worker : inbox[w] = <<>> /\ Len(inbox[w]) = 0 /\ outbox[w] = {}
    BY DEF SteadyInit
  <2>2. inbox \in [Worker -> Seq(Messages)] /\ outbox \in [Worker -> SUBSET Updates]
    BY DEF SteadyInit
  <2> QED
    BY <2>1, <2>2 DEF QueuesKnown, KnownQueue, OutKnown
<1>8. DocsOK
  BY <1>3, <1>4, <1>6, <1>7 DEF DocsOK, SteadyInit
<1>9. RoomOK
  BY DEF SteadyInit, RoomOK, Phases
<1>10. RowOK
  BY <1>1 DEF SteadyInit, RowOK, LoopStates, Text
<1> QED
  BY <1>8, <1>9, <1>10 DEF TypeInv

LEMMA SteadyStart == SteadyInit => SteadyInv
<1> SUFFICES ASSUME SteadyInit PROVE SteadyInv
  OBVIOUS
<1>1. Len(items) = 1 /\ items[1] = [text |-> Body0, deps |-> {}]
  BY DEF SteadyInit
<1>2. Keystrokes
  BY <1>1 DEF Keystrokes, Earlier, SteadyInit
<1>3. \A w \in Worker :
          /\ inbox[w] = <<>> /\ Len(inbox[w]) = 0 /\ outbox[w] = {}
          /\ phase[w] = "open" /\ w \in listening
          /\ doc[w] = [has |-> {1}, gone |-> {}, wait |-> {}]
  BY DEF SteadyInit, EmptyDoc
<1>4. \A w \in Worker : Queued(w) = {} /\ Sending(w) = {} /\ OnlyItems(w) /\ Knows(w) = {1}
  BY <1>3 DEF Queued, Sending, OnlyItems, Knows
<1>5. \A w \in Worker : PlainDoc(w)
  BY <1>1, <1>3 DEF PlainDoc
<1>6. \A w \in Worker : Fed(w) /\ Unheld(w) /\ Authored(w)
  BY <1>1, <1>3, <1>4 DEF Fed, Reached, Unheld, Authored
<1> QED
  BY <1>2, <1>4, <1>5, <1>6, SteadyTyped DEF SteadyInv, SteadyAt

LEMMA CarriesOne ==
    ASSUME NEW m, NEW x, Carries(m, x)
    PROVE  /\ m.type = "update" /\ m.update = [has |-> {x}, gone |-> {}]
           /\ m.update.has = {x} /\ m.update.gone = {}
           /\ \A y : Carries(m, y) => y = x
<1>1. /\ m.type = "update" /\ m.update = [has |-> {x}, gone |-> {}]
      /\ m.update.has = {x} /\ m.update.gone = {}
  BY DEF Carries, UpdateMsg
<1>2. ASSUME NEW y, Carries(m, y) PROVE y = x
  <2>1. m.update.has = {y}
    BY <1>2 DEF Carries, UpdateMsg
  <2> QED
    BY <1>1, <2>1
<1> QED
  BY <1>1, <1>2

(* The types of a steady room, as the lemmas below use them.               *)
LEMMA SteadyTypes ==
    ASSUME SteadyInv
    PROVE  /\ TypeInv /\ Keystrokes
           /\ items \in Seq(Item) /\ Len(items) \in Nat \ {0}
           /\ doc \in [Worker -> Doc] /\ inbox \in [Worker -> Seq(Messages)]
           /\ outbox \in [Worker -> SUBSET Updates]
           /\ phase \in [Worker -> Phases] /\ clients \in [Worker -> Nat]
           /\ \A w \in Worker : /\ doc[w].has \subseteq 1..Len(items)
                                /\ doc[w].wait \subseteq 1..Len(items)
                                /\ Knows(w) \subseteq 1..Len(items)
                                /\ Sending(w) \subseteq 1..Len(items)
           /\ \A w \in Worker : clients[w] # 0 \/ inbox[w] # <<>> => phase[w] = "open"
<1>1. TypeInv /\ Keystrokes /\ DocsOK /\ RoomOK
  BY DEF SteadyInv, TypeInv
<1>2. Len(items) \in Nat \ {0}
  <2>1. Len(items) \in Nat /\ Len(items) > 0
    BY <1>1, LenIsNat DEF Keystrokes
  <2> QED
    BY <2>1
<1>3. \A w \in Worker : doc[w].has \subseteq 1..Len(items) /\ doc[w].wait \subseteq 1..Len(items)
  BY <1>1 DEF DocsOK, DocsKnown, KnownDoc
<1>4. \A w \in Worker : Knows(w) \subseteq 1..Len(items) /\ Sending(w) \subseteq 1..Len(items)
  BY <1>3 DEF Knows, Queued, Sending
<1>5. \A w \in Worker : clients[w] # 0 \/ inbox[w] # <<>> => phase[w] = "open"
  BY DEF SteadyInv, SteadyAt, Fed
<1> QED
  BY <1>1, <1>2, <1>3, <1>4, <1>5 DEF DocsOK, RoomOK, DocsKnown, QueuesKnown, OutKnown

(* A client types: the item is in its author's replica and outbox.         *)
LEMMA EditMakes ==
    ASSUME SteadyInv, NEW w \in Worker, Edit(w)
    PROVE  /\ phase[w] = "open"
           /\ Len(items') = Len(items) + 1
           /\ \A x \in 1..Len(items) : items'[x] = items[x]
           /\ \E t \in EditToken \ typed :
                 /\ typed' = typed \cup {t}
                 /\ items'[Len(items) + 1] = [text |-> {t}, deps |-> doc[w].has]
           /\ doc'[w].has = doc[w].has \cup {Len(items) + 1}
           /\ doc'[w].gone = doc[w].gone /\ doc'[w].wait = doc[w].wait
           /\ outbox'[w] = outbox[w] \cup {UpdateMsg({Len(items) + 1}, {})}
           /\ \A v \in Worker \ {w} : doc'[v] = doc[v] /\ outbox'[v] = outbox[v]
           /\ dirty' = dirty \cup {w}
           /\ UNCHANGED <<inbox, phase, listening, clients>>
<1>0. /\ items \in Seq(Item) /\ doc \in [Worker -> Doc]
      /\ outbox \in [Worker -> SUBSET Updates]
      /\ Len(items) \in Nat /\ doc[w].has \subseteq 1..Len(items)
      /\ clients[w] \in Nat /\ (clients[w] # 0 => phase[w] = "open")
  BY SteadyTypes
<1>1. phase[w] = "open"
  BY <1>0 DEF Edit
<1>2. PICK t \in EditToken \ typed :
          /\ typed' = typed \cup {t}
          /\ items' = Append(items, [text |-> {t}, deps |-> doc[w].has])
  BY DEF Edit, Insert
<1>3. [text |-> {t}, deps |-> doc[w].has] \in Item
  BY <1>0 DEF Item, Text, Token, Doc
<1>4. /\ doc' = [doc EXCEPT ![w].has = @ \cup {Len(items) + 1}]
      /\ outbox' = [outbox EXCEPT ![w] = @ \cup {UpdateMsg({Len(items) + 1}, {})}]
      /\ dirty' = dirty \cup {w}
      /\ UNCHANGED <<inbox, phase, listening, clients>>
  BY <1>1 DEF Edit, Observed, NextItem, ToPublish
<1> HIDE DEF Item
<1>5. /\ Len(items') = Len(items) + 1
      /\ items'[Len(items) + 1] = [text |-> {t}, deps |-> doc[w].has]
      /\ \A x \in 1..Len(items) : items'[x] = items[x]
  BY <1>0, <1>2, <1>3
<1>6. /\ doc'[w].has = doc[w].has \cup {Len(items) + 1}
      /\ doc'[w].gone = doc[w].gone /\ doc'[w].wait = doc[w].wait
      /\ \A v \in Worker \ {w} : doc'[v] = doc[v]
  BY <1>0, <1>4 DEF Doc
<1>7. /\ outbox'[w] = outbox[w] \cup {UpdateMsg({Len(items) + 1}, {})}
      /\ \A v \in Worker \ {w} : outbox'[v] = outbox[v]
  BY <1>0, <1>4
<1> QED
  BY <1>1, <1>2, <1>4, <1>5, <1>6, <1>7

LEMMA EditKeystrokes ==
    ASSUME SteadyInv, NEW w \in Worker, Edit(w)
    PROVE  Keystrokes'
<1> DEFINE N == Len(items)
           n == N + 1
<1>0. /\ N \in Nat \ {0} /\ Keystrokes /\ Len(items') = n
      /\ \A x \in 1..N : items'[x] = items[x]
      /\ doc[w].has \subseteq 1..N
      /\ \A x \in doc[w].has : items[x].deps \subseteq doc[w].has
  BY SteadyTypes, EditMakes DEF SteadyInv, SteadyAt, PlainDoc
<1>1. PICK t \in EditToken \ typed :
          typed' = typed \cup {t} /\ items'[n] = [text |-> {t}, deps |-> doc[w].has]
  BY EditMakes
<1>2. /\ 1..n = 1..N \cup {n} /\ 2..n = 2..N \cup {n} /\ n \notin 1..N
      /\ 2..N \subseteq 1..N /\ 1..(n - 1) = 1..N /\ 1 \in 1..N
  BY <1>0
<1> HIDE DEF N, n
<1>3. \A x \in 1..n : Earlier(x)'
  <2>1. \A x \in 1..N : \A y \in items[x].deps : y \in 1..N
    <3>1. \A x \in 1..N : items[x].deps \subseteq 1..(x - 1) /\ 1..(x - 1) \subseteq 1..N
      BY <1>0 DEF Keystrokes, Earlier, N
    <3> QED
      BY <3>1
  <2>2. \A x \in 1..N : Earlier(x)'
    BY <1>0, <2>1 DEF Keystrokes, Earlier, N
  <2>3. ASSUME NEW x, x = n PROVE Earlier(x)'
    <3>1. items'[x].deps = doc[w].has /\ doc[w].has \subseteq 1..(x - 1)
      BY <1>0, <1>1, <1>2, <2>3
    <3>2. \A y \in doc[w].has : items'[y].deps \subseteq doc[w].has
      BY <1>0
    <3> QED
      BY <3>1, <3>2 DEF Earlier
  <2> QED
    BY <1>2, <2>2, <2>3
<1>4. \A x \in 2..n : \E u \in typed' : items'[x].text = {u}
  <2>1. ASSUME NEW x \in 2..N PROVE \E u \in typed : items'[x].text = {u}
    <3>1. PICK u \in typed : items[x].text = {u}
      BY <1>0 DEF Keystrokes, OneKeystroke, N
    <3>2. items'[x] = items[x]
      BY <1>0, <1>2
    <3> QED
      BY <3>1, <3>2
  <2>2. items'[n].text = {t}
    BY <1>1
  <2> QED
    BY <1>1, <1>2, <2>1, <2>2
<1>5. \A x \in 2..N : items'[n].text # items[x].text
  <2>1. \A x \in 2..N : \E u \in typed : items[x].text = {u}
    BY <1>0 DEF Keystrokes, OneKeystroke, N
  <2>2. items'[n].text = {t} /\ \A u \in typed : {t} # {u}
    BY <1>1
  <2> QED
    BY <2>1, <2>2
<1>6. \A x, y \in 2..n : x # y => items'[x].text # items'[y].text
  <2>1. \A x, y \in 2..N : x # y => items'[x].text # items'[y].text
    BY <1>0, <1>2 DEF Keystrokes, N
  <2>2. \A x \in 2..N : items'[n].text # items'[x].text
    BY <1>0, <1>2, <1>5
  <2> QED
    BY <1>2, <2>1, <2>2
<1>7. \A u \in typed' : \E x \in 2..n : items'[x].text = {u}
  <2> SUFFICES ASSUME NEW u \in typed' PROVE \E x \in 2..n : items'[x].text = {u}
    OBVIOUS
  <2>1. CASE u = t
    <3>1. items'[n].text = {t}
      BY <1>1
    <3> QED
      BY <1>2, <2>1, <3>1
  <2>2. CASE u \in typed
    <3>1. PICK x \in 2..N : items[x].text = {u}
      BY <1>0, <2>2 DEF Keystrokes, N
    <3> QED
      BY <1>0, <1>2, <3>1
  <2> QED
    BY <1>1, <2>1, <2>2
<1>8. items'[1].text = Body0 /\ n > 0
  BY <1>0, <1>2 DEF Keystrokes, n
<1> QED
  BY <1>0, <1>3, <1>4, <1>6, <1>7, <1>8 DEF Keystrokes, OneKeystroke

LEMMA EditFeeds ==
    ASSUME SteadyInv, TypeInv', NEW w \in Worker, Edit(w)
    PROVE  SteadyInv'
<1> DEFINE N == Len(items)
           n == N + 1
<1>0. /\ N \in Nat \ {0} /\ n \in Nat /\ 1..n = 1..N \cup {n} /\ n \notin 1..N
      /\ Len(items') = n /\ \A x \in 1..N : items'[x] = items[x]
      /\ items'[n].deps = doc[w].has
  <2>1. N \in Nat \ {0} /\ Len(items') = n /\ \A x \in 1..N : items'[x] = items[x]
    BY SteadyTypes, EditMakes
  <2>2. PICK t \in EditToken \ typed : items'[n] = [text |-> {t}, deps |-> doc[w].has]
    BY EditMakes
  <2>3. items'[n].deps = doc[w].has
    BY <2>2
  <2> QED
    BY <2>1, <2>3
<1>1. /\ phase[w] = "open" /\ UNCHANGED <<inbox, phase, listening, clients>>
      /\ doc'[w].has = doc[w].has \cup {n}
      /\ doc'[w].gone = doc[w].gone /\ doc'[w].wait = doc[w].wait
      /\ outbox'[w] = outbox[w] \cup {UpdateMsg({n}, {})}
      /\ \A v \in Worker \ {w} : doc'[v] = doc[v] /\ outbox'[v] = outbox[v]
  BY EditMakes
<1>2. /\ \A v \in Worker : /\ doc[v].has \subseteq 1..N /\ doc[v].wait \subseteq 1..N
                           /\ Knows(v) \subseteq 1..N /\ Sending(v) \subseteq 1..N
      /\ \A x \in 1..N : items[x].deps \subseteq 1..N
  <2>1. \A x \in 1..N : items[x].deps \subseteq 1..(x - 1) /\ 1..(x - 1) \subseteq 1..N
    BY <1>0, SteadyTypes DEF Keystrokes, Earlier
  <2> QED
    BY <2>1, SteadyTypes
<1>3. \A v \in Worker : SteadyAt(v)
  BY DEF SteadyInv
<1>4. Carries(UpdateMsg({n}, {}), n)
  BY DEF Carries
<1> HIDE DEF N, n
<1>5. \A v \in Worker : OnlyItems(v)'
  BY <1>0, <1>1, <1>3, <1>4 DEF SteadyAt, OnlyItems, N
<1>6. \A v \in Worker : Queued(v)' = Queued(v)
  <2> SUFFICES ASSUME NEW v \in Worker PROVE Queued(v)' = Queued(v)
    OBVIOUS
  <2>1. ASSUME NEW k \in 1..Len(inbox[v]) PROVE ~Carries(inbox[v][k], n)
    <3>1. PICK x \in 1..N : Carries(inbox[v][k], x)
      BY <1>3 DEF SteadyAt, OnlyItems, N
    <3>2. Carries(inbox[v][k], n) => n = x
      BY <3>1, CarriesOne
    <3> QED
      BY <1>0, <3>1, <3>2
  <2> QED
    BY <1>0, <1>1, <2>1 DEF Queued, N
<1>7. \A v \in Worker \ {w} : Sending(v)' = Sending(v)
  <2> SUFFICES ASSUME NEW v \in Worker \ {w} PROVE Sending(v)' = Sending(v)
    OBVIOUS
  <2>1. ASSUME NEW m \in outbox[v] PROVE ~Carries(m, n)
    <3>1. PICK x \in 1..N : Carries(m, x)
      BY <1>3 DEF SteadyAt, OnlyItems, N
    <3>2. Carries(m, n) => n = x
      BY <3>1, CarriesOne
    <3> QED
      BY <1>0, <3>1, <3>2
  <2> QED
    BY <1>0, <1>1, <2>1 DEF Sending, N
<1>8. Sending(w)' = Sending(w) \cup {n}
  <2>1. ASSUME NEW m \in outbox[w] PROVE ~Carries(m, n)
    <3>1. PICK x \in 1..N : Carries(m, x)
      BY <1>3 DEF SteadyAt, OnlyItems, N
    <3>2. Carries(m, n) => n = x
      BY <3>1, CarriesOne
    <3> QED
      BY <1>0, <3>1, <3>2
  <2>2. \A x : Carries(UpdateMsg({n}, {}), x) => x = n
    BY <1>4, CarriesOne
  <2> QED
    <3> DEFINE new == UpdateMsg({n}, {})
    <3>1. Sending(w)' = {x \in 1..N \cup {n} : \E m \in outbox[w] \cup {new} : Carries(m, x)}
      BY <1>0, <1>1 DEF Sending
    <3>2. Sending(w) = {x \in 1..N : \E m \in outbox[w] : Carries(m, x)}
      BY DEF Sending, N
    <3>3. Carries(new, n) /\ \A x : Carries(new, x) => x = n
      BY <1>4, <2>2
    <3> HIDE DEF new
    <3> QED
      BY <1>0, <2>1, <3>1, <3>2, <3>3
<1>9. Knows(w)' = Knows(w) \cup {n} /\ \A v \in Worker \ {w} : Knows(v)' = Knows(v)
  BY <1>1, <1>6 DEF Knows
<1>10. \A v \in Worker : Fed(v)'
  <2> SUFFICES ASSUME NEW v \in Worker PROVE Fed(v)'
    OBVIOUS
  <2>1. CASE phase[v] = "open"
    <3>1. 1..N \subseteq Knows(v) \cup UNION {Sending(u) : u \in Worker}
      BY <1>3, <2>1 DEF SteadyAt, Fed, Reached, N
    <3>2. Knows(v) \subseteq Knows(v)' /\ \A u \in Worker : Sending(u) \subseteq Sending(u)'
      BY <1>7, <1>8, <1>9
    <3>3. 1..n \subseteq Knows(v)' \cup UNION {Sending(u)' : u \in Worker}
      <4>1. n \in UNION {Sending(u)' : u \in Worker}
        BY <1>8
      <4>2. UNION {Sending(u) : u \in Worker} \subseteq UNION {Sending(u)' : u \in Worker}
        BY <3>2
      <4> QED
        BY <1>0, <3>1, <3>2, <4>1, <4>2
    <3>4. Reached(v)'
      BY <1>0, <3>3 DEF Reached
    <3> QED
      BY <1>1, <1>3, <2>1, <3>4 DEF SteadyAt, Fed
  <2>2. CASE phase[v] # "open"
    BY <1>1, <1>3, <2>2 DEF SteadyAt, Fed
  <2> QED
    BY <2>1, <2>2
<1>11. \A v \in Worker : Unheld(v)'
  <2> SUFFICES ASSUME NEW v \in Worker, NEW u \in Worker \ {v}
               PROVE  /\ Sending(u)' \cap Sending(v)' = {}
                      /\ phase'[u] = "open" => Sending(v)' \cap Knows(u)' = {}
    BY DEF Unheld
  <2>1. /\ Sending(u) \cap Sending(v) = {}
        /\ phase[u] = "open" => Sending(v) \cap Knows(u) = {}
    BY <1>3 DEF SteadyAt, Unheld
  <2> QED
    BY <1>0, <1>1, <1>2, <1>7, <1>8, <1>9, <2>1
<1>12. \A v \in Worker : Authored(v)'
  <2> SUFFICES ASSUME NEW v \in Worker, phase[v] = "open", NEW y \in Sending(v)'
               PROVE  y \in doc'[v].has /\ \A x \in 1..n : y \in items'[x].deps => x \in doc'[v].has
    BY <1>0, <1>1 DEF Authored
  <2>1. CASE y = n
    <3>1. v = w
      BY <1>0, <1>2, <1>7, <2>1
    <3>2. \A x \in 1..n : n \notin items'[x].deps
      BY <1>0, <1>2
    <3> QED
      BY <1>1, <2>1, <3>1, <3>2
  <2>2. CASE y # n
    <3>1. y \in Sending(v)
      BY <1>7, <1>8, <2>2
    <3>2. y \in doc[v].has /\ \A x \in 1..N : y \in items[x].deps => x \in doc[v].has
      BY <1>3, <3>1 DEF SteadyAt, Authored, N
    <3>3. y \in doc[w].has => v = w
      BY <1>1, <1>3, <3>1 DEF SteadyAt, Unheld, Knows
    <3> QED
      BY <1>0, <1>1, <3>2, <3>3
  <2> QED
    BY <2>1, <2>2
<1>13. \A v \in Worker : PlainDoc(v)'
  <2> SUFFICES ASSUME NEW v \in Worker PROVE PlainDoc(v)'
    OBVIOUS
  <2>1. PlainDoc(v)
    BY <1>3 DEF SteadyAt
  <2>2. \A x \in doc[v].has \cup doc[v].wait : items'[x] = items[x]
    BY <1>0, <1>2
  <2>3. CASE v # w
    BY <1>1, <2>1, <2>2, <2>3 DEF PlainDoc
  <2>4. CASE v = w
    <3>1. \A x \in doc[w].wait : n \notin items[x].deps
      BY <1>0, <1>2
    <3> QED
      BY <1>0, <1>1, <2>1, <2>2, <2>4, <3>1 DEF PlainDoc
  <2> QED
    BY <2>3, <2>4
<1>14. \A v \in Worker : SteadyAt(v)'
  BY <1>5, <1>10, <1>11, <1>12, <1>13 DEF SteadyAt
<1> QED
  BY <1>14, EditKeystrokes DEF SteadyInv

(* A _publish task runs: the item goes from one outbox into the queue of   *)
(* every other open room.                                                  *)
LEMMA PublishMoves ==
    ASSUME SteadyInv, NEW w \in Worker, Publish(w)
    PROVE  \E x \in Sending(w) :
             /\ Sending(w)' = Sending(w) \ {x}
             /\ \A v \in Worker \ {w} :
                   /\ Sending(v)' = Sending(v)
                   /\ phase[v] = "open" => Queued(v)' = Queued(v) \cup {x}
                   /\ phase[v] # "open" => inbox'[v] = inbox[v]
             /\ Queued(w)' = Queued(w) /\ inbox'[w] = inbox[w]
             /\ \A v \in Worker : OnlyItems(v)'
<1>0. /\ inbox \in [Worker -> Seq(Messages)] /\ outbox \in [Worker -> SUBSET Updates]
      /\ \A v \in Worker : OnlyItems(v) /\ Fed(v)
  BY SteadyTypes DEF SteadyInv, SteadyAt
<1>1. PICK m \in outbox[w] :
          /\ outbox' = [outbox EXCEPT ![w] = @ \ {m}]
          /\ inbox' = Posted(inbox, w, m)
  BY DEF Publish
<1>2. UNCHANGED <<items, phase, doc, listening>>
  BY DEF Publish, local
<1>3. PICK x \in 1..Len(items) : Carries(m, x)
  BY <1>0 DEF OnlyItems
<1>4. \A v \in Worker \ {w} : outbox'[v] = outbox[v] /\ Sending(v)' = Sending(v)
  BY <1>0, <1>1, <1>2 DEF Sending
<1>5. outbox'[w] = outbox[w] \ {m} /\ x \in Sending(w) /\ Sending(w)' = Sending(w) \ {x}
  <2>1. outbox'[w] = outbox[w] \ {m}
    BY <1>0, <1>1
  <2>2. \A k \in outbox[w] : Carries(k, x) => k = m
    BY <1>3 DEF Carries
  <2>3. \A y : Carries(m, y) => y = x
    BY <1>3, CarriesOne
  <2> QED
    BY <1>2, <1>3, <2>1, <2>2, <2>3 DEF Sending
<1>6. inbox'[w] = inbox[w] /\ Queued(w)' = Queued(w)
  BY <1>1, <1>2 DEF Posted, Queued
<1>7. \A v \in Worker \ {w} : phase[v] # "open" => inbox'[v] = inbox[v]
  BY <1>0, <1>1 DEF Posted, Fed
<1>8. ASSUME NEW v \in Worker \ {w}, phase[v] = "open"
      PROVE  /\ Queued(v)' = Queued(v) \cup {x}
             /\ \A k \in 1..Len(inbox'[v]) : \E y \in 1..Len(items) : Carries(inbox'[v][k], y)
  <2> DEFINE q == inbox[v]
  <2>1. v \in listening /\ inbox[v] \in Seq(Messages) /\ OnlyItems(v)
    BY <1>0, <1>8 DEF Fed
  <2>2. inbox'[v] = Append(q, m)
    BY <1>1, <2>1 DEF Posted
  <2>3. /\ Len(inbox'[v]) = Len(q) + 1 /\ Len(q) \in Nat /\ inbox'[v][Len(q) + 1] = m
        /\ \A k \in 1..Len(q) : inbox'[v][k] = q[k]
    BY <2>1, <2>2
  <2>4. \A k \in 1..(Len(q) + 1) : k = Len(q) + 1 \/ k \in 1..Len(q)
    BY <2>3
  <2>5. Len(q) + 1 \in 1..(Len(q) + 1) /\ 1..Len(q) \subseteq 1..(Len(q) + 1)
    BY <2>3
  <2>6. \A y : Carries(m, y) <=> y = x
    BY <1>3, CarriesOne
  <2>7. \A k \in 1..Len(q) : \E y \in 1..Len(items) : Carries(q[k], y)
    BY <2>1 DEF OnlyItems
  <2>8. Queued(v) = {y \in 1..Len(items) : \E k \in 1..Len(q) : Carries(q[k], y)}
    BY DEF Queued
  <2>9. Queued(v)' = {y \in 1..Len(items) : \E k \in 1..(Len(q) + 1) : Carries(inbox'[v][k], y)}
    BY <1>2, <2>3 DEF Queued
  <2> HIDE DEF q
  <2> QED
    BY <1>3, <2>3, <2>4, <2>5, <2>6, <2>7, <2>8, <2>9
<1>9. ASSUME NEW v \in Worker PROVE OnlyItems(v)'
  <2>1. \A k \in outbox'[v] : \E y \in 1..Len(items) : Carries(k, y)
    BY <1>0, <1>4, <1>5 DEF OnlyItems
  <2>2. \A k \in 1..Len(inbox'[v]) : \E y \in 1..Len(items) : Carries(inbox'[v][k], y)
    BY <1>0, <1>6, <1>7, <1>8 DEF OnlyItems
  <2> QED
    BY <1>2, <2>1, <2>2 DEF OnlyItems
<1> QED
  BY <1>4, <1>5, <1>6, <1>7, <1>8, <1>9

LEMMA PublishFeeds ==
    ASSUME SteadyInv, TypeInv', NEW w \in Worker, Publish(w)
    PROVE  SteadyInv'
<1>1. PICK x \in Sending(w) :
          /\ Sending(w)' = Sending(w) \ {x}
          /\ \A v \in Worker \ {w} :
                /\ Sending(v)' = Sending(v)
                /\ phase[v] = "open" => Queued(v)' = Queued(v) \cup {x}
                /\ phase[v] # "open" => inbox'[v] = inbox[v]
          /\ Queued(w)' = Queued(w) /\ inbox'[w] = inbox[w]
          /\ \A v \in Worker : OnlyItems(v)'
  BY PublishMoves
<1>2. UNCHANGED <<items, typed, phase, doc, listening, clients>>
  BY DEF Publish, local, budget
<1>3. \A v \in Worker : SteadyAt(v)
  BY DEF SteadyInv
<1>4. Keystrokes' /\ \A v \in Worker : PlainDoc(v)'
  <2>1. Keystrokes'
    BY <1>2 DEF SteadyInv, Keystrokes, Earlier, OneKeystroke
  <2>2. \A v \in Worker : PlainDoc(v)'
    BY <1>2, <1>3 DEF SteadyAt, PlainDoc
  <2> QED
    BY <2>1, <2>2
<1>5. /\ Knows(w)' = Knows(w)
      /\ \A v \in Worker \ {w} : phase[v] = "open" => Knows(v)' = Knows(v) \cup {x}
  BY <1>1, <1>2 DEF Knows
<1>6. ASSUME NEW v \in Worker PROVE Fed(v)'
  <2>1. CASE phase[v] = "open"
    <3>1. 1..Len(items) \subseteq Knows(v) \cup UNION {Sending(u) : u \in Worker}
      BY <1>3, <2>1 DEF SteadyAt, Fed, Reached
    <3>2. Knows(v) \subseteq Knows(v)' /\ x \in Knows(v)'
      BY <1>1, <1>3, <1>5, <2>1 DEF SteadyAt, Authored, Knows
    <3>3. \A u \in Worker : Sending(u) \subseteq Sending(u)' \cup {x}
      BY <1>1
    <3>4. 1..Len(items) \subseteq Knows(v)' \cup UNION {Sending(u)' : u \in Worker}
      BY <3>1, <3>2, <3>3
    <3>5. Reached(v)'
      BY <1>2, <3>4 DEF Reached
    <3> QED
      BY <1>2, <1>3, <2>1, <3>5 DEF SteadyAt, Fed
  <2>2. CASE phase[v] # "open"
    BY <1>1, <1>2, <1>3, <2>2 DEF SteadyAt, Fed
  <2> QED
    BY <2>1, <2>2
<1>7. ASSUME NEW v \in Worker PROVE Unheld(v)'
  <2> SUFFICES ASSUME NEW u \in Worker \ {v}
               PROVE  /\ Sending(u)' \cap Sending(v)' = {}
                      /\ phase[u] = "open" => Sending(v)' \cap Knows(u)' = {}
    BY <1>2 DEF Unheld
  <2>1. /\ Sending(u) \cap Sending(v) = {}
        /\ phase[u] = "open" => Sending(v) \cap Knows(u) = {}
        /\ v # w => x \notin Sending(v)
    BY <1>1, <1>3 DEF SteadyAt, Unheld
  <2>2. x \notin Sending(v)' /\ Sending(v)' \subseteq Sending(v) /\ Sending(u)' \subseteq Sending(u)
    BY <1>1, <2>1
  <2>3. phase[u] = "open" => Knows(u)' \subseteq Knows(u) \cup {x}
    BY <1>5
  <2> QED
    BY <2>1, <2>2, <2>3
<1>8. ASSUME NEW v \in Worker PROVE Authored(v)'
  <2>1. Sending(v)' \subseteq Sending(v)
    BY <1>1
  <2> QED
    BY <1>2, <1>3, <2>1 DEF SteadyAt, Authored
<1>9. \A v \in Worker : SteadyAt(v)'
  BY <1>1, <1>4, <1>6, <1>7, <1>8 DEF SteadyAt
<1> QED
  BY <1>4, <1>9 DEF SteadyInv

(* The item at the head of a queue is integrated with all that waited for  *)
(* it alone, or it waits itself.                                           *)
LEMMA MergeOne ==
    ASSUME SteadyInv, NEW w \in Worker, ReceiveUpdate(w)
    PROVE  \E x \in Queued(w) :
             /\ doc'[w].has \cup doc'[w].wait = doc[w].has \cup doc[w].wait \cup {x}
             /\ doc[w].has \subseteq doc'[w].has /\ doc'[w].gone = {}
             /\ \A y \in doc'[w].has : items[y].deps \subseteq doc'[w].has
             /\ \A y \in doc'[w].wait :
                    ~(items[y].deps \subseteq doc'[w].has \cup doc'[w].wait)
             /\ Queued(w) \subseteq Queued(w)' \cup {x} /\ Queued(w)' \subseteq Queued(w)
             /\ OnlyItems(w)' /\ phase[w] = "open"
             /\ dirty' = IF doc'[w].has # doc[w].has THEN dirty \cup {w} ELSE dirty
<1> DEFINE q == inbox[w]
           d == doc[w]
           u == Head(q).update
<1>0. /\ q \in Seq(Messages) /\ q # <<>> /\ phase[w] = "open"
      /\ OnlyItems(w) /\ PlainDoc(w) /\ Keystrokes /\ doc \in [Worker -> Doc]
      /\ inbox \in [Worker -> Seq(Messages)]
      /\ d.has \subseteq 1..Len(items) /\ d.wait \subseteq 1..Len(items)
  BY SteadyTypes DEF SteadyInv, SteadyAt, ReceiveUpdate, Arrived
<1>1. /\ inbox'[w] = Tail(q) /\ doc'[w] = Merge(d, u) /\ UNCHANGED <<items, outbox>>
      /\ dirty' = IF <<doc'[w].has, doc'[w].gone>> # <<d.has, d.gone>>
                  THEN dirty \cup {w} ELSE dirty
  BY <1>0 DEF ReceiveUpdate, Consumed
<1>2. /\ Head(q) = q[1] /\ 1 \in 1..Len(q) /\ Len(q) \in Nat /\ Len(Tail(q)) = Len(q) - 1
      /\ \A k \in 1..Len(Tail(q)) : Tail(q)[k] = q[k + 1] /\ k + 1 \in 1..Len(q)
      /\ \A k \in 1..Len(q) : k = 1 \/ (k - 1 \in 1..Len(Tail(q)) /\ Tail(q)[k - 1] = q[k])
  <2>1. /\ Head(q) = q[1] /\ Len(q) \in Nat \ {0} /\ Len(Tail(q)) = Len(q) - 1
        /\ \A k \in 1..Len(Tail(q)) : Tail(q)[k] = q[k + 1]
    BY <1>0
  <2> HIDE DEF q
  <2>2. \A k \in 1..Len(Tail(q)) : k + 1 \in 1..Len(q)
    BY <2>1
  <2>3. \A k \in 1..Len(q) : k = 1 \/ (k - 1 \in 1..Len(Tail(q)) /\ (k - 1) + 1 = k)
    BY <2>1
  <2> QED
    BY <2>1, <2>2, <2>3
<1>3. PICK x \in 1..Len(items) : Carries(q[1], x)
  BY <1>0, <1>2 DEF OnlyItems
<1>4. u.has = {x} /\ u.gone = {} /\ d.gone = {} /\ x \in Queued(w)
  BY <1>0, <1>2, <1>3, CarriesOne DEF PlainDoc, Queued
<1>5. /\ \A k \in 1..Len(Tail(q)) : \E y \in 1..Len(items) : Carries(Tail(q)[k], y)
      /\ \A k \in outbox[w] : \E y \in 1..Len(items) : Carries(k, y)
  BY <1>0, <1>2 DEF OnlyItems
<1>6. OnlyItems(w)'
  BY <1>1, <1>5 DEF OnlyItems
<1>7. Queued(w) \subseteq Queued(w)' \cup {x} /\ Queued(w)' \subseteq Queued(w)
  <2>1. Queued(w)' = {y \in 1..Len(items) : \E k \in 1..Len(Tail(q)) : Carries(Tail(q)[k], y)}
    BY <1>1 DEF Queued
  <2>2. Queued(w) = {y \in 1..Len(items) : \E k \in 1..Len(q) : Carries(q[k], y)}
    BY DEF Queued
  <2> HIDE DEF q
  <2>3. \A y : Carries(q[1], y) => y = x
    BY <1>3, CarriesOne
  <2> QED
    BY <1>2, <2>1, <2>2, <2>3
<1> DEFINE pool == d.wait \cup {x}
           ready == {i \in pool : items[i].deps \subseteq d.has \cup pool}
<1>8. /\ doc'[w] = [has |-> d.has \cup ready, gone |-> {}, wait |-> pool \ (d.has \cup ready)]
  BY <1>1, <1>4 DEF Merge
<1>9. /\ doc'[w].has = d.has \cup ready /\ doc'[w].gone = {}
      /\ doc'[w].wait = pool \ (d.has \cup ready)
  BY <1>8
<1>10. \A y \in pool : y \in 1..Len(items) /\ \A z \in items[y].deps : items[z].deps \subseteq items[y].deps
  BY <1>0, <1>3 DEF Keystrokes, Earlier
<1>11. \A y \in d.has : items[y].deps \subseteq d.has
  BY <1>0 DEF PlainDoc
<1>12. \A y \in d.has \cup ready : items[y].deps \subseteq d.has \cup ready
  <2> SUFFICES ASSUME NEW y \in ready, NEW z \in items[y].deps PROVE z \in d.has \cup ready
    BY <1>11
  <2>1. items[z].deps \subseteq d.has \cup pool /\ z \in d.has \cup pool
    BY <1>10
  <2> QED
    BY <2>1
<1>13. d.has \cup doc'[w].has \cup doc'[w].wait = d.has \cup pool
  BY <1>9
<1>14. /\ doc'[w].has \cup doc'[w].wait = d.has \cup d.wait \cup {x}
       /\ d.has \subseteq doc'[w].has
       /\ \A y \in doc'[w].has : items[y].deps \subseteq doc'[w].has
       /\ \A y \in doc'[w].wait : ~(items[y].deps \subseteq doc'[w].has \cup doc'[w].wait)
  <2>1. doc'[w].has \cup doc'[w].wait = d.has \cup pool
    BY <1>9, <1>13
  <2>2. \A y \in doc'[w].wait : y \in pool /\ y \notin ready
    BY <1>9
  <2> QED
    BY <1>9, <1>12, <2>1, <2>2
<1>15. dirty' = IF doc'[w].has # d.has THEN dirty \cup {w} ELSE dirty
  BY <1>1, <1>4, <1>9
<1> HIDE DEF pool, ready
<1> QED
  BY <1>0, <1>4, <1>6, <1>7, <1>9, <1>14, <1>15

LEMMA ReceiveFeeds ==
    ASSUME SteadyInv, TypeInv', NEW w \in Worker, ReceiveUpdate(w)
    PROVE  SteadyInv'
<1>1. PICK x \in Queued(w) :
          /\ doc'[w].has \cup doc'[w].wait = doc[w].has \cup doc[w].wait \cup {x}
          /\ doc[w].has \subseteq doc'[w].has /\ doc'[w].gone = {}
          /\ \A y \in doc'[w].has : items[y].deps \subseteq doc'[w].has
          /\ \A y \in doc'[w].wait : ~(items[y].deps \subseteq doc'[w].has \cup doc'[w].wait)
          /\ Queued(w) \subseteq Queued(w)' \cup {x} /\ Queued(w)' \subseteq Queued(w)
          /\ OnlyItems(w)' /\ phase[w] = "open"
  BY MergeOne
<1>2. UNCHANGED <<items, typed, outbox, phase, listening, clients>>
  BY DEF ReceiveUpdate, budget
<1>3. \A v \in Worker \ {w} : doc'[v] = doc[v] /\ inbox'[v] = inbox[v]
  <2>1. doc \in [Worker -> Doc] /\ inbox \in [Worker -> Seq(Messages)]
    BY SteadyTypes
  <2> QED
    BY <2>1 DEF ReceiveUpdate, Consumed
<1>4. \A v \in Worker : SteadyAt(v)
  BY DEF SteadyInv
<1>5. \A v \in Worker : Sending(v)' = Sending(v)
  BY <1>2 DEF Sending
<1>6. \A v \in Worker : Knows(v)' = Knows(v)
  <2>1. Knows(w)' = Knows(w)
    BY <1>1 DEF Knows
  <2>2. ASSUME NEW v \in Worker \ {w} PROVE Knows(v)' = Knows(v)
    BY <1>2, <1>3, <2>2 DEF Knows, Queued
  <2> QED
    BY <2>1, <2>2
<1>7. \A v \in Worker : OnlyItems(v)' /\ PlainDoc(v)'
  <2>1. PlainDoc(w)'
    BY <1>1, <1>2 DEF PlainDoc
  <2>2. \A v \in Worker \ {w} : OnlyItems(v)' /\ PlainDoc(v)'
    BY <1>2, <1>3, <1>4 DEF SteadyAt, OnlyItems, PlainDoc
  <2> QED
    BY <1>1, <2>1, <2>2
<1>8. \A v \in Worker : Unheld(v)'
  BY <1>2, <1>4, <1>5, <1>6 DEF SteadyAt, Unheld
<1>9. \A v \in Worker : Authored(v)'
  <2>1. \A v \in Worker : doc[v].has \subseteq doc'[v].has
    BY <1>1, <1>3
  <2> QED
    BY <1>2, <1>4, <1>5, <2>1 DEF SteadyAt, Authored
<1>10. \A v \in Worker : Fed(v)'
  <2>1. \A v \in Worker : Reached(v)' <=> Reached(v)
    BY <1>2, <1>5, <1>6 DEF Reached
  <2> QED
    BY <1>1, <1>2, <1>3, <1>4, <2>1 DEF SteadyAt, Fed
<1>11. \A v \in Worker : SteadyAt(v)'
  BY <1>7, <1>8, <1>9, <1>10 DEF SteadyAt
<1>12. Keystrokes'
  BY <1>2 DEF SteadyInv, Keystrokes, Earlier, OneKeystroke
<1> QED
  BY <1>11, <1>12 DEF SteadyInv

(* The steps that leave every open replica, its queue and every outbox     *)
(* alone.                                                                  *)
Untouched(v) ==
    /\ UNCHANGED <<phase[v], inbox[v], doc[v]>>
    /\ clients'[v] = clients[v] \/ phase[v] = "open"
    /\ (v \in listening) <=> (v \in listening')
PutAway(v) ==
    /\ phase'[v] \notin {"open"} \cup Initialising
    /\ v \notin listening' /\ inbox'[v] = <<>> /\ clients'[v] = 0
    /\ doc'[v] = doc[v] \/ doc'[v] = EmptyDoc

LEMMA ApartFeeds ==
    ASSUME SteadyInv, TypeInv', UNCHANGED <<items, typed, outbox>>,
           \A v \in Worker : Untouched(v) \/ PutAway(v)
    PROVE  SteadyInv'
<1>1. Keystrokes'
  BY DEF SteadyInv, Keystrokes, Earlier, OneKeystroke
<1>2. \A v \in Worker : SteadyAt(v)
  BY DEF SteadyInv
<1>3. \A v \in Worker : Sending(v)' = Sending(v)
  BY DEF Sending
<1>4. \A v \in Worker : phase'[v] = "open" =>
          phase[v] = "open" /\ Knows(v)' = Knows(v) /\ doc'[v] = doc[v]
  BY DEF Untouched, PutAway, Knows, Queued
<1>5. ASSUME NEW v \in Worker PROVE OnlyItems(v)'
  <2>1. inbox'[v] = inbox[v] \/ inbox'[v] = <<>>
    BY DEF Untouched, PutAway
  <2>2. inbox'[v] = <<>> => 1..Len(inbox'[v]) = {}
    <3>1. Len(<<>>) = 0 /\ 1..0 = {}
      OBVIOUS
    <3> QED
      BY <3>1
  <2> QED
    BY <1>2, <2>1, <2>2 DEF SteadyAt, OnlyItems
<1>6. ASSUME NEW v \in Worker PROVE PlainDoc(v)'
  BY <1>2 DEF SteadyAt, PlainDoc, Untouched, PutAway, EmptyDoc
<1>7. ASSUME NEW v \in Worker PROVE Fed(v)'
  <2>1. CASE Untouched(v)
    <3>1. phase[v] = "open" => (Reached(v)' <=> Reached(v))
      BY <1>3, <1>4, <2>1 DEF Reached, Untouched
    <3> QED
      BY <1>2, <2>1, <3>1 DEF SteadyAt, Fed, Untouched
  <2>2. CASE PutAway(v)
    BY <2>2 DEF PutAway, Fed
  <2> QED
    BY <2>1, <2>2
<1>8. ASSUME NEW v \in Worker PROVE Unheld(v)' /\ Authored(v)'
  BY <1>2, <1>3, <1>4 DEF SteadyAt, Unheld, Authored
<1>9. \A v \in Worker : SteadyAt(v)'
  BY <1>5, <1>6, <1>7, <1>8 DEF SteadyAt
<1> QED
  BY <1>1, <1>9 DEF SteadyInv

(* Every message on its way in a steady room is one item.                  *)
LEMMA OnlyUpdates ==
    ASSUME SteadyInv, NEW w \in Worker, Receive(w)
    PROVE  ReceiveUpdate(w)
<1>1. inbox[w] # <<>> /\ inbox[w] \in Seq(Messages) /\ OnlyItems(w)
  BY SteadyTypes DEF Receive, ReceiveUpdate, ReceiveRequest, ReceiveReset, Arrived,
     SteadyInv, SteadyAt
<1>2. 1 \in 1..Len(inbox[w]) /\ Head(inbox[w]) = inbox[w][1]
  BY <1>1
<1>3. Head(inbox[w]).type = "update"
  <2>1. PICK x \in 1..Len(items) : Carries(Head(inbox[w]), x)
    BY <1>1, <1>2 DEF OnlyItems
  <2> QED
    BY <2>1, CarriesOne
<1> QED
  BY <1>3 DEF Receive, ReceiveRequest, ReceiveReset, Arrived

LEMMA SteadyStep ==
    ASSUME Save = {}, MaxOpens = 0, SteadyInv, [Next]_vars
    PROVE  SteadyInv'
<1>0. /\ TypeInv /\ TypeInv'
      /\ phase \in [Worker -> Phases] /\ doc \in [Worker -> Doc] /\ clients \in [Worker -> Nat]
      /\ inbox \in [Worker -> Seq(Messages)]
      /\ \A w \in Worker : Fed(w)
      /\ \A w \in Worker : phase[w] \notin Initialising
      /\ \A w \in Worker : inbox[w] # <<>> \/ clients[w] # 0 => phase[w] = "open"
  <2>1. TypeInv /\ TypeInv'
    BY TypeInvInductive DEF SteadyInv
  <2>2. \A w \in Worker : Fed(w)
    BY DEF SteadyInv, SteadyAt
  <2> QED
    BY <2>1, <2>2, SteadyTypes DEF Fed, Initialising
<1>a. ASSUME UNCHANGED <<items, typed, outbox>>, \A v \in Worker : Untouched(v) \/ PutAway(v)
      PROVE  SteadyInv'
  BY <1>0, <1>a, ApartFeeds
<1>b. ASSUME UNCHANGED <<items, typed, phase, inbox, outbox, doc, clients, listening>> PROVE SteadyInv'
  BY <1>a, <1>b DEF Untouched
<1>1. ASSUME NEW w \in Worker, Opening(w) PROVE SteadyInv'
  <2>1. phase[w] \notin Initialising
    BY <1>0
  <2>2. CASE Subscribe(w)
    <3>1. phase[w] = "open" /\ w \in listening
      BY <1>0, <2>1, <2>2 DEF Subscribe, Initialising, Fed
    <3> QED
      BY <2>2, <3>1 DEF Subscribe
  <2>3. CASE OpenRoom(w)
    BY <1>0, <2>3 DEF OpenRoom, TypeInv, RoomOK
  <2> QED
    BY <1>1, <2>1, <2>2, <2>3 DEF Opening, Seeding, ReadRow, SeedOwn, SeedFromDead, SeedAdopted,
       Ask, AsksNow, CaughtUp, ResetStaleSeed, GiveUp, Initialising
<1>2. ASSUME NEW w \in Worker, ClientStep(w) PROVE SteadyInv'
  <2>1. CASE Edit(w)
    BY <1>0, <2>1, EditFeeds
  <2>2. CASE Join(w)
    <3>1. phase[w] = "open"
      BY <1>0, <2>2 DEF Join, FindsRoom
    <3>2. \A v \in Worker : Untouched(v)
      BY <1>0, <2>2, <3>1 DEF Join, Untouched
    <3> QED
      BY <1>a, <2>2, <3>2 DEF Join, budget
  <2>3. CASE Leave(w)
    <3>1. /\ phase[w] = "open" /\ clients' = [clients EXCEPT ![w] = clients[w] - 1]
          /\ UNCHANGED <<items, typed, doc, outbox>>
      BY <2>3 DEF Leave
    <3>2. CASE LastClient(w)
      <4>1. /\ phase' = [phase EXCEPT ![w] = "closing"] /\ listening' = listening \ {w}
            /\ inbox' = [inbox EXCEPT ![w] = <<>>] /\ clients[w] = 1
        BY <2>3, <3>2 DEF Leave, Go, LastClient
      <4>2. PutAway(w)
        BY <1>0, <3>1, <4>1 DEF PutAway, Initialising
      <4>3. \A v \in Worker \ {w} : Untouched(v)
        BY <1>0, <3>1, <4>1 DEF Untouched
      <4> QED
        BY <1>a, <3>1, <4>2, <4>3
    <3>3. CASE ~LastClient(w)
      <4>1. UNCHANGED <<phase, listening, inbox>>
        BY <2>3, <3>3 DEF Leave
      <4>2. \A v \in Worker : Untouched(v)
        BY <1>0, <3>1, <4>1 DEF Untouched
      <4> QED
        BY <1>a, <3>1, <4>2
    <3> QED
      BY <3>2, <3>3
  <2> QED
    BY <1>2, <2>1, <2>2, <2>3 DEF ClientStep
<1>3. ASSUME NEW w \in Worker, Teardown(w) PROVE SteadyInv'
  <2>1. /\ phase[w] \in Closing
        /\ \E p \in Closing \cup {"none"} : phase' = [phase EXCEPT ![w] = p]
        /\ doc' = doc \/ doc' = [doc EXCEPT ![w] = EmptyDoc]
        /\ UNCHANGED <<items, typed, inbox, outbox, listening, clients>>
    BY <1>3 DEF Teardown, FinalSample, NothingToWrite, FinalCommit, FinalRefused, FinalFail,
       Release, Unlock, Go, Closing, budget
  <2>2. PutAway(w)
    <3>1. Fed(w) /\ phase[w] # "open"
      BY <1>0, <2>1 DEF Closing
    <3> QED
      BY <1>0, <2>1, <3>1 DEF PutAway, Fed, Closing, Initialising
  <2>3. \A v \in Worker \ {w} : Untouched(v)
    BY <1>0, <2>1 DEF Untouched
  <2> QED
    BY <1>a, <2>1, <2>2, <2>3
<1>4. ASSUME NEW w \in Worker, Fanout(w) PROVE SteadyInv'
  <2>1. CASE Publish(w)
    BY <1>0, <2>1, PublishFeeds
  <2>2. CASE Receive(w)
    BY <1>0, <2>2, OnlyUpdates, ReceiveFeeds
  <2> QED
    BY <1>4, <2>1, <2>2 DEF Fanout
<1>5. ASSUME NEW w \in Worker, PersistLoop(w) \/ HeartbeatLapses(w) PROVE SteadyInv'
  BY <1>b, <1>5 DEF PersistLoop, LoopGoesOn, Tick, KeepAlive, PersistSample, PersistSkip,
     PersistCommit, PersistRefused, PersistFail, PersistDone, HeartbeatLapses, local, budget
<1>6. ASSUME NEW w \in Worker, Crash(w) PROVE SteadyInv'
  <2>1. PutAway(w)
    BY <1>0, <1>6 DEF PutAway, Crash, Go, Initialising
  <2>2. \A v \in Worker \ {w} : Untouched(v)
    BY <1>0, <1>6 DEF Untouched, Crash, Go
  <2> QED
    BY <1>a, <1>6, <2>1, <2>2 DEF Crash
<1>7. CASE SeedExpires \/ LockExpires \/ UNCHANGED vars
  BY <1>b, <1>7 DEF SeedExpires, LockExpires, vars, local, budget
<1> QED
  BY <1>1, <1>2, <1>3, <1>4, <1>5, <1>6, <1>7 DEF Next

LEMMA SteadyInvHolds ==
    ASSUME Save = {}, MaxOpens = 0
    PROVE  SteadyInit /\ [][Next]_vars => []SteadyInv
<1>1. SteadyInv /\ [Next]_vars => SteadyInv'
  BY SteadyStep
<1> QED
  BY <1>1, SteadyStart, PTL

(* What an open room has integrated, and what that was typed after, did    *)
(* not die unsent.                                                         *)
LEMMA HeldIsHeard ==
    ASSUME SteadyInv, NEW w \in Worker, phase[w] = "open"
    PROVE  doc[w].has \cap Unheard = {}
<1>1. \A v \in Worker : OnlyItems(v) /\ Unheld(v)
  BY DEF SteadyInv, SteadyAt
<1>2. PlainDoc(w)
  BY DEF SteadyInv, SteadyAt
<1>3. \A v \in Worker : Unsent(v) \subseteq Sending(v)
  <2> SUFFICES ASSUME NEW v \in Worker, NEW m \in outbox[v], NEW x \in m.update.has
               PROVE  x \in Sending(v)
    BY DEF Unsent
  <2>1. PICK y \in 1..Len(items) : Carries(m, y)
    BY <1>1 DEF OnlyItems
  <2>2. m.update.has = {y}
    BY <2>1, CarriesOne
  <2> QED
    BY <2>1, <2>2 DEF Sending
<1>4. ASSUME NEW x \in doc[w].has, x \in DiedUnsent PROVE FALSE
  <2>1. PICK v \in Worker : phase[v] = "dead" /\ x \in Unsent(v)
    BY <1>4 DEF DiedUnsent
  <2>2. x \in Sending(v) /\ v # w
    BY <1>3, <2>1
  <2> QED
    BY <1>1, <2>2 DEF Unheld, Knows
<1>5. ASSUME NEW x \in doc[w].has, x \in Unheard PROVE FALSE
  <2>1. PICK y \in {x} \cup items[x].deps : y \in DiedUnsent
    BY <1>5 DEF Unheard
  <2>2. y \in doc[w].has
    BY <1>2, <2>1 DEF PlainDoc
  <2> QED
    BY <1>4, <2>1, <2>2
<1> QED
  BY <1>5

(* An item that an open room has not integrated misses something: that is  *)
(* in the room's queue, or in an outbox.                                   *)
LEMMA MissingIsSomewhere ==
    ASSUME SteadyInv, NEW w \in Worker, phase[w] = "open",
           NEW x \in 1..Len(items), x \notin doc[w].has
    PROVE  \E y \in {x} \cup items[x].deps :
               /\ x \in doc[w].wait \cup Queued(w) \/ y = x
               /\ y \in Queued(w) \/ \E v \in Worker : y \in Sending(v)
<1>1. PlainDoc(w) /\ Reached(w) /\ Earlier(x)
  BY DEF SteadyInv, SteadyAt, Fed, Keystrokes
<1>2. CASE x \in doc[w].wait
  <2>1. PICK y \in items[x].deps : y \notin doc[w].has \cup doc[w].wait
    BY <1>1, <1>2 DEF PlainDoc
  <2>2. y \in 1..Len(items)
    <3>1. y \in 1..(x - 1) /\ Len(items) \in Nat
      BY <1>1, <2>1, SteadyTypes DEF Earlier
    <3> QED
      BY <3>1
  <2> QED
    BY <1>1, <1>2, <2>1, <2>2 DEF Reached, Knows
<1>3. CASE x \notin doc[w].wait
  BY <1>1, <1>3 DEF Reached, Knows
<1> QED
  BY <1>2, <1>3

LEMMA SendingIsUnsent ==
    ASSUME SteadyInv, NEW v \in Worker, NEW y \in Sending(v)
    PROVE  /\ y \in Unsent(v) /\ outbox[v] # {}
           /\ phase[v] = "dead" => \A x \in 1..Len(items) : y \in {x} \cup items[x].deps => x \in Unheard
<1>1. PICK m \in outbox[v] : Carries(m, y)
  BY DEF Sending
<1>2. y \in Unsent(v)
  <2>1. m.update.has = {y}
    BY <1>1, CarriesOne
  <2> QED
    BY <2>1 DEF Unsent
<1>3. ASSUME phase[v] = "dead", NEW x \in 1..Len(items), y \in {x} \cup items[x].deps
      PROVE  x \in Unheard
  <2>1. y \in DiedUnsent
    BY <1>2, <1>3 DEF DiedUnsent
  <2>2. x \in DOMAIN items
    BY SteadyTypes
  <2> QED
    BY <1>3, <2>1, <2>2 DEF Unheard
<1> QED
  BY <1>1, <1>2, <1>3

(* When a room's queue and the outboxes of the living are empty, the room  *)
(* has everything that did not die unsent.                                 *)
LEMMA QuietHoldsAll ==
    ASSUME SteadyInv, NEW w \in Worker, phase[w] = "open", inbox[w] = <<>>,
           \A v \in Worker : AllPublished(v)
    PROVE  doc[w].has = 1..Len(items) \ Unheard
<1>1. Queued(w) = {}
  <2>1. Len(inbox[w]) = 0 /\ 1..0 = {}
    OBVIOUS
  <2> QED
    BY <2>1 DEF Queued
<1>2. ASSUME NEW x \in 1..Len(items), x \notin doc[w].has PROVE x \in Unheard
  <2>1. PICK y \in {x} \cup items[x].deps : \E v \in Worker : y \in Sending(v)
    BY <1>1, <1>2, MissingIsSomewhere
  <2>2. PICK v \in Worker : y \in Sending(v)
    BY <2>1
  <2>3. phase[v] = "dead"
    BY <2>2, SendingIsUnsent DEF AllPublished
  <2> QED
    BY <2>1, <2>2, <2>3, SendingIsUnsent
<1>3. doc[w].has \subseteq 1..Len(items)
  BY SteadyTypes
<1> QED
  BY <1>2, <1>3, HeldIsHeard

(* Whoever types, joins, leaves or dies while no save comes: when what was *)
(* sent has arrived every open replica has every item but those that died  *)
(* unsent, so all show the same text (collab.py:8-14, 406-423).            *)
THEOREM SteadyRoomConverges ==
    ASSUME Save = {}, MaxOpens = 0
    PROVE  SteadyInit /\ [][Next]_vars => []Converged
<1>1. SteadyInv => Converged
  <2> SUFFICES ASSUME SteadyInv, Quiet PROVE Converged
    BY DEF Converged
  <2>1. \A w \in Worker : inbox[w] = <<>> /\ AllPublished(w)
    BY DEF Quiet
  <2>2. ASSUME NEW w \in Worker, phase[w] = "open"
        PROVE  Visible(doc[w]) = 1..Len(items) \ Unheard
    <3>1. doc[w].has = 1..Len(items) \ Unheard
      BY <2>1, <2>2, QuietHoldsAll
    <3>2. doc[w].gone = {}
      BY DEF SteadyInv, SteadyAt, PlainDoc
    <3> QED
      BY <3>1, <3>2 DEF Visible
  <2> QED
    BY <2>2 DEF Converged, TextOf
<1> QED
  BY <1>1, SteadyInvHolds, PTL

(* ... and an update that still waits then waits for one that died unsent, *)
(* or that was typed after such a one (collab.py:187-191, 406-423).        *)
THEOREM SteadyRoomNeverStuck ==
    ASSUME Save = {}, MaxOpens = 0
    PROVE  SteadyInit /\ [][Next]_vars => []NoStuckUpdates
<1>1. SteadyInv => NoStuckUpdates
  <2> SUFFICES ASSUME SteadyInv, Quiet, NEW w \in Worker, phase[w] = "open",
                      NEW x \in doc[w].wait
               PROVE  x \in Unheard
    BY DEF NoStuckUpdates
  <2>1. doc[w].has = 1..Len(items) \ Unheard
    BY QuietHoldsAll DEF Quiet
  <2>2. x \in 1..Len(items)
    BY SteadyTypes
  <2>3. x \notin doc[w].has
    BY DEF SteadyInv, SteadyAt, PlainDoc
  <2> QED
    BY <2>1, <2>2, <2>3
<1> QED
  BY <1>1, SteadyInvHolds, PTL

(* ... and at no time does a replica show a keystroke twice                *)
(* (collab.py:269-276).                                                    *)
THEOREM SteadyRoomShowsOnce ==
    ASSUME Save = {}, MaxOpens = 0, Body0 \cap EditToken = {}
    PROVE  SteadyInit /\ [][Next]_vars => []NoDuplicatedText
<1>1. SteadyInv => NoDuplicatedText
  <2> SUFFICES ASSUME SteadyInv, NEW w \in Worker,
                      NEW i \in Visible(doc[w]), NEW j \in Visible(doc[w]), i # j
               PROVE  items[i].text \cap items[j].text = {}
    BY DEF NoDuplicatedText
  <2>1. i \in 1..Len(items) /\ j \in 1..Len(items) /\ Len(items) \in Nat
    BY SteadyTypes DEF Visible
  <2>2. Keystrokes /\ typed \subseteq EditToken
    BY DEF SteadyInv, TypeInv, RowOK
  <2>3. \A x \in 2..Len(items) : \E t \in EditToken : items[x].text = {t}
    BY <2>2 DEF Keystrokes, OneKeystroke
  <2>4. items[1].text = Body0
    BY <2>2 DEF Keystrokes
  <2>5. CASE i = 1 \/ j = 1
    BY <2>1, <2>3, <2>4, <2>5
  <2>6. CASE i \in 2..Len(items) /\ j \in 2..Len(items)
    <3>1. items[i].text # items[j].text
      BY <2>2, <2>6 DEF Keystrokes
    <3> QED
      BY <2>3, <2>6, <3>1
  <2> QED
    BY <2>1, <2>5, <2>6
<1> QED
  BY <1>1, SteadyInvHolds, PTL

-----------------------------------------------------------------------------
(* Who writes the row.  While nobody leaves, the owner of the persist lock *)
(* shows every keystroke that is in the row and did not lapse, that is,    *)
(* die unsent or after one that did: so its write takes no other back.     *)
(* When the lock has run out everybody shows them.                         *)

Shows(w) == TextOf(doc[w])
Lapsed == {t \in typed : DiedUnheard(t)}

OwnerKnowsRow ==
    \A w \in Worker : phase[w] = "open" /\ lock \in {w, Nobody} =>
        row \cap typed \subseteq Shows(w) \cup Lapsed

(* A write under way carries what is in the row, and nothing that its      *)
(* worker does not show.                                                   *)
WriteKnowsRow ==
    \A w \in Worker : loop[w] = "writing" =>
        /\ phase[w] = "open" /\ lock = w
        /\ row \cap typed \subseteq sample[w] \cup Lapsed
        /\ sample[w] \subseteq Shows(w)

(* What a worker shows is in the row, or it is going to write it, or it    *)
(* shows too much for any write.                                           *)
Kept(w, t) ==
    \/ t \in row
    \/ w \in dirty
    \/ loop[w] = "writing" /\ t \in sample[w]
    \/ Shows(w) \in TooLarge
ShownIsKept ==
    \A w \in Worker : phase[w] = "open" => \A t \in typed \cap Shows(w) : Kept(w, t)

(* No text shows a keystroke before it is typed.                           *)
NothingUntyped ==
    /\ row \cap EditToken \subseteq typed
    /\ \A w \in Worker : sample[w] \cap EditToken \subseteq typed

(* Workers are open, or dead.                                              *)
OpenOrDead ==
    /\ \A w \in Worker : phase[w] \in {"open", "dead"}
    /\ \A w \in Worker : phase[w] = "dead" => loop[w] = "idle" /\ w \notin dirty
    /\ \A w \in Worker : loop[w] \notin {"ghost", "orphan"}

WriteInv ==
    /\ SteadyInv /\ OpenOrDead
    /\ OwnerKnowsRow /\ WriteKnowsRow /\ ShownIsKept /\ NothingUntyped

(* What a steady room shows.                                               *)
LEMMA ShowsItems ==
    ASSUME SteadyInv, NEW w \in Worker
    PROVE  Shows(w) = UNION {items[x].text : x \in doc[w].has}
<1>1. doc[w].gone = {}
  BY DEF SteadyInv, SteadyAt, PlainDoc
<1> QED
  BY <1>1 DEF Shows, TextOf, Visible

LEMMA ShowsOnlyTyped ==
    ASSUME SteadyInv, Body0 \cap EditToken = {}, NEW w \in Worker
    PROVE  Shows(w) \cap EditToken \subseteq typed
<1>0. Keystrokes /\ doc[w].has \subseteq 1..Len(items) /\ Len(items) \in Nat
  BY SteadyTypes
<1> SUFFICES ASSUME NEW t \in Shows(w), t \in EditToken PROVE t \in typed
  OBVIOUS
<1>1. PICK x \in 1..Len(items) : t \in items[x].text
  BY <1>0, ShowsItems
<1>2. x # 1
  BY <1>0, <1>1 DEF Keystrokes
<1>3. x \in 2..Len(items)
  BY <1>0, <1>1, <1>2
<1> QED
  BY <1>0, <1>1, <1>3 DEF Keystrokes, OneKeystroke

(* A keystroke is one item: nothing else carries it.                       *)
LEMMA OneItem ==
    ASSUME SteadyInv, Body0 \cap EditToken = {}, NEW t \in typed
    PROVE  \E x \in 2..Len(items) : /\ items[x].text = {t}
                                    /\ \A y \in 1..Len(items) : t \in items[y].text => y = x
<1>0. Keystrokes /\ typed \subseteq EditToken /\ Len(items) \in Nat
  BY SteadyTypes DEF TypeInv, RowOK
<1>1. PICK x \in 2..Len(items) : items[x].text = {t}
  BY <1>0 DEF Keystrokes
<1>2. ASSUME NEW y \in 1..Len(items), t \in items[y].text PROVE y = x
  <2>1. y \in 2..Len(items)
    <3>1. y # 1
      BY <1>0, <1>2 DEF Keystrokes
    <3> QED
      BY <1>0, <3>1
  <2>2. items[y].text = {t}
    <3>1. PICK u \in typed : items[y].text = {u}
      BY <1>0, <2>1 DEF Keystrokes, OneKeystroke
    <3> QED
      BY <1>2, <3>1
  <2> QED
    BY <1>0, <1>1, <2>1, <2>2 DEF Keystrokes
<1> QED
  BY <1>1, <1>2

LEMMA ShownHasNotLapsed ==
    ASSUME SteadyInv, Body0 \cap EditToken = {}, NEW w \in Worker, phase[w] = "open"
    PROVE  Shows(w) \cap Lapsed = {}
<1> SUFFICES ASSUME NEW t \in Shows(w), t \in Lapsed PROVE FALSE
  OBVIOUS
<1>1. t \in typed /\ \E i \in Unheard : t \in items[i].text
  BY DEF Lapsed, DiedUnheard
<1>2. PICK x \in 2..Len(items) : \A y \in 1..Len(items) : t \in items[y].text => y = x
  BY <1>1, OneItem
<1>3. doc[w].has \subseteq 1..Len(items) /\ Unheard \subseteq 1..Len(items)
  BY SteadyTypes DEF Unheard
<1>4. PICK i \in Unheard : t \in items[i].text
  BY <1>1
<1>5. PICK j \in doc[w].has : t \in items[j].text
  BY ShowsItems
<1>6. i = x /\ j = x
  BY <1>2, <1>3, <1>4, <1>5
<1> QED
  BY <1>4, <1>5, <1>6, HeldIsHeard

(* When everything sent has arrived, a room shows what has not lapsed.     *)
LEMMA QuietShowsAll ==
    ASSUME SteadyInv, NEW w \in Worker, phase[w] = "open", inbox[w] = <<>>,
           \A v \in Worker : AllPublished(v)
    PROVE  typed \subseteq Shows(w) \cup Lapsed
<1> SUFFICES ASSUME NEW t \in typed, t \notin Shows(w) PROVE t \in Lapsed
  OBVIOUS
<1>1. PICK x \in 2..Len(items) : items[x].text = {t}
  BY SteadyTypes DEF Keystrokes
<1>2. x \notin doc[w].has
  BY <1>1, ShowsItems
<1>3. x \in 1..Len(items)
  BY <1>1
<1>4. x \in Unheard
  BY <1>2, <1>3, QuietHoldsAll
<1> QED
  BY <1>1, <1>4 DEF Lapsed, DiedUnheard

(* What lapsed stays so: the dead send nothing, and only a death adds.     *)
LEMMA LapsedStays ==
    ASSUME SteadyInv, typed \subseteq typed', Len(items) <= Len(items'), SteadyInv',
           \A x \in 1..Len(items) : items'[x] = items[x],
           \A v \in Worker : phase[v] = "dead" => phase'[v] = "dead" /\ outbox'[v] = outbox[v]
    PROVE  Lapsed \subseteq Lapsed'
<1>1. DiedUnsent \subseteq DiedUnsent'
  BY DEF DiedUnsent, Unsent
<1>2. /\ DOMAIN items = 1..Len(items) /\ DOMAIN items' = 1..Len(items')
      /\ 1..Len(items) \subseteq 1..Len(items')
  <2>1. items \in Seq(Item) /\ Len(items) \in Nat
    BY SteadyTypes
  <2>2. items' \in Seq(Item') /\ Len(items') \in Nat
    BY DEF SteadyInv, TypeInv, DocsOK
  <2> QED
    BY <2>1, <2>2
<1>3. Unheard \subseteq Unheard'
  BY <1>1, <1>2 DEF Unheard
<1>4. \A x \in Unheard : x \in 1..Len(items)
  BY <1>2 DEF Unheard
<1> QED
  BY <1>3, <1>4 DEF Lapsed, DiedUnheard

(* What typing and delivery do to the texts shown.                         *)
LEMMA EditShows ==
    ASSUME SteadyInv, SteadyInv', NEW w \in Worker, Edit(w)
    PROVE  \E t \in EditToken \ typed :
             /\ typed' = typed \cup {t}
             /\ Shows(w) \subseteq Shows(w)' /\ Shows(w)' \subseteq Shows(w) \cup {t}
             /\ \A v \in Worker \ {w} : Shows(v)' = Shows(v)
<1> DEFINE n == Len(items) + 1
<1>0. \A v \in Worker : doc[v].has \subseteq 1..Len(items)
  BY SteadyTypes
<1>1. /\ \A x \in 1..Len(items) : items'[x] = items[x]
      /\ doc'[w].has = doc[w].has \cup {n}
      /\ \A v \in Worker \ {w} : doc'[v] = doc[v]
  BY EditMakes
<1>2. PICK t \in EditToken \ typed :
          typed' = typed \cup {t} /\ items'[n] = [text |-> {t}, deps |-> doc[w].has]
  BY EditMakes
<1> HIDE DEF n
<1>3. items'[n].text = {t}
  BY <1>2
<1>4. \A v \in Worker : Shows(v) = UNION {items[x].text : x \in doc[v].has}
  BY ShowsItems
<1>5. \A v \in Worker : Shows(v)' = UNION {items'[x].text : x \in doc'[v].has}
  <2>1. \A v \in Worker : doc'[v].gone = {}
    BY DEF SteadyInv, SteadyAt, PlainDoc
  <2> QED
    BY <2>1 DEF Shows, TextOf, Visible
<1>6. \A v \in Worker : \A x \in doc[v].has : items'[x] = items[x]
  BY <1>0, <1>1
<1>7. \A v \in Worker \ {w} : Shows(v)' = Shows(v)
  <2> SUFFICES ASSUME NEW v \in Worker \ {w} PROVE Shows(v)' = Shows(v)
    OBVIOUS
  <2>1. doc'[v].has = doc[v].has /\ \A x \in doc[v].has : items'[x].text = items[x].text
    BY <1>1, <1>6
  <2>2. Shows(v)' = UNION {items'[x].text : x \in doc[v].has}
    BY <1>5, <2>1
  <2> QED
    BY <1>4, <2>1, <2>2
<1>8. Shows(w)' = Shows(w) \cup {t}
  BY <1>1, <1>3, <1>4, <1>5, <1>6
<1> QED
  BY <1>2, <1>7, <1>8

LEMMA ReceiveShows ==
    ASSUME SteadyInv, SteadyInv', NEW w \in Worker, ReceiveUpdate(w)
    PROVE  /\ Shows(w) \subseteq Shows(w)' /\ phase[w] = "open"
           /\ w \in dirty' \/ Shows(w)' = Shows(w)
           /\ \A v \in Worker \ {w} : Shows(v)' = Shows(v)
           /\ dirty \subseteq dirty' /\ dirty' \subseteq dirty \cup {w}
<1>1. /\ doc[w].has \subseteq doc'[w].has /\ doc'[w].gone = {} /\ phase[w] = "open"
      /\ dirty' = IF doc'[w].has # doc[w].has THEN dirty \cup {w} ELSE dirty
  BY MergeOne
<1>2. UNCHANGED items /\ \A v \in Worker \ {w} : doc'[v] = doc[v]
  BY SteadyTypes DEF ReceiveUpdate
<1>3. \A v \in Worker \ {w} : Shows(v)' = Shows(v)
  BY <1>2 DEF Shows, TextOf, Visible
<1>4. Shows(w) = UNION {items[x].text : x \in doc[w].has}
  BY ShowsItems
<1>5. Shows(w)' = UNION {items[x].text : x \in doc'[w].has}
  BY <1>1, <1>2 DEF Shows, TextOf, Visible
<1> QED
  BY <1>1, <1>3, <1>4, <1>5

(* A text that is too large stays so as it grows.                          *)
LEMMA NextShowsText == ASSUME NEW w \in Worker PROVE TypeInv' => Shows(w)' \in Text
<1>1. TypeInv => Shows(w) \in Text
  BY ReplicaText DEF Shows
<1>2. TypeInv' => (Shows(w) \in Text)'
  BY <1>1, PTL
<1> QED
  BY <1>2

LEMMA GrownIsTooLarge ==
    ASSUME TypeInv', NEW w \in Worker, NEW short, short \in TooLarge, short \subseteq Shows(w)'
    PROVE  Shows(w)' \in TooLarge
<1>1. Shows(w)' \in Text
  BY NextShowsText
<1> QED
  BY <1>1, MoreIsLarger

(* The steps that touch no text, no lock and no write.                     *)
LEMMA ApartKeepsWrites ==
    ASSUME WriteInv, SteadyInv', Lapsed \subseteq Lapsed',
           \/ loop' = loop
           \/ \E w \in Worker, p \in {"idle", "beating", "checking"} :
                  loop[w] # "writing" /\ phase[w] = "open" /\ loop' = [loop EXCEPT ![w] = p],
           UNCHANGED <<row, items, lock, typed, doc, phase, dirty, sample>>
    PROVE  WriteInv'
<1>0. loop \in [Worker -> LoopStates]
  BY DEF WriteInv, SteadyInv, TypeInv, RowOK
<1>1. \A v \in Worker : /\ loop'[v] = "writing" <=> loop[v] = "writing"
                        /\ loop'[v] \notin {"ghost", "orphan"}
                        /\ phase[v] = "dead" => loop'[v] = "idle"
  BY <1>0 DEF WriteInv, OpenOrDead
<1>2. \A v \in Worker : Shows(v)' = Shows(v)
  BY DEF Shows, TextOf, Visible
<1>3. OpenOrDead' /\ NothingUntyped'
  BY <1>1 DEF WriteInv, OpenOrDead, NothingUntyped
<1>4. OwnerKnowsRow'
  BY <1>2 DEF WriteInv, OwnerKnowsRow
<1>5. WriteKnowsRow'
  BY <1>1, <1>2 DEF WriteInv, WriteKnowsRow
<1>6. ShownIsKept'
  BY <1>1, <1>2 DEF WriteInv, ShownIsKept, Kept
<1> QED
  BY <1>3, <1>4, <1>5, <1>6 DEF WriteInv

LEMMA EditKeepsWrites ==
    ASSUME WriteInv, SteadyInv', Lapsed \subseteq Lapsed', Body0 \cap EditToken = {},
           NEW w \in Worker, Edit(w)
    PROVE  WriteInv'
<1>0. SteadyInv /\ TypeInv'
  BY DEF WriteInv, SteadyInv
<1>1. PICK t \in EditToken \ typed :
          /\ typed' = typed \cup {t}
          /\ Shows(w) \subseteq Shows(w)' /\ Shows(w)' \subseteq Shows(w) \cup {t}
          /\ \A v \in Worker \ {w} : Shows(v)' = Shows(v)
  BY <1>0, EditShows
<1>2. dirty' = dirty \cup {w} /\ UNCHANGED <<row, lock, phase, loop, sample>>
  BY <1>0, EditMakes DEF Edit, redis, writers
<1>3. t \notin row /\ \A v \in Worker : t \notin sample[v] /\ t \notin Shows(v)
  BY <1>0, <1>1, ShowsOnlyTyped DEF WriteInv, NothingUntyped
<1>4. OpenOrDead' /\ NothingUntyped'
  <2>1. phase[w] = "open"
    BY <1>0, EditMakes
  <2> QED
    BY <1>1, <1>2, <2>1 DEF WriteInv, OpenOrDead, NothingUntyped
<1>5. \A v \in Worker : Shows(v) \subseteq Shows(v)'
  BY <1>1
<1>6. row \cap typed' \subseteq row \cap typed
  BY <1>1, <1>3
<1>7. OwnerKnowsRow'
  BY <1>2, <1>5, <1>6 DEF WriteInv, OwnerKnowsRow
<1>8. WriteKnowsRow'
  BY <1>2, <1>5, <1>6 DEF WriteInv, WriteKnowsRow
<1>9. ShownIsKept'
  <2> SUFFICES ASSUME NEW v \in Worker, phase[v] = "open", NEW s \in typed' \cap Shows(v)', v # w
               PROVE  Kept(v, s)'
    BY <1>2 DEF ShownIsKept, Kept
  <2>1. Shows(v)' = Shows(v) /\ s \in typed
    BY <1>1, <1>3
  <2> QED
    BY <1>2, <2>1 DEF WriteInv, ShownIsKept, Kept
<1> QED
  BY <1>4, <1>7, <1>8, <1>9 DEF WriteInv

LEMMA ReceiveKeepsWrites ==
    ASSUME WriteInv, SteadyInv', Lapsed \subseteq Lapsed', NEW w \in Worker, ReceiveUpdate(w)
    PROVE  WriteInv'
<1>0. SteadyInv
  BY DEF WriteInv
<1>1. /\ Shows(w) \subseteq Shows(w)' /\ phase[w] = "open"
      /\ w \in dirty' \/ Shows(w)' = Shows(w)
      /\ \A v \in Worker \ {w} : Shows(v)' = Shows(v)
      /\ dirty \subseteq dirty' /\ dirty' \subseteq dirty \cup {w}
  BY <1>0, ReceiveShows
<1>2. UNCHANGED <<row, lock, typed, phase, loop, sample>>
  BY DEF ReceiveUpdate, redis, writers, budget
<1>3. \A v \in Worker : Shows(v) \subseteq Shows(v)'
  BY <1>1
<1>4. OpenOrDead' /\ NothingUntyped'
  BY <1>1, <1>2 DEF WriteInv, OpenOrDead, NothingUntyped
<1>5. OwnerKnowsRow'
  BY <1>2, <1>3 DEF WriteInv, OwnerKnowsRow
<1>6. WriteKnowsRow'
  BY <1>2, <1>3 DEF WriteInv, WriteKnowsRow
<1>7. ShownIsKept'
  BY <1>1, <1>2 DEF WriteInv, ShownIsKept, Kept
<1> QED
  BY <1>4, <1>5, <1>6, <1>7 DEF WriteInv

LEMMA SampleKeepsWrites ==
    ASSUME WriteInv, SteadyInv', Lapsed \subseteq Lapsed', Body0 \cap EditToken = {},
           NEW w \in Worker, PersistSample(w)
    PROVE  WriteInv'
<1>0. /\ SteadyInv /\ phase[w] = "open" /\ lock \in {w, Nobody} /\ w # Nobody
      /\ sample \in [Worker -> Text] /\ loop \in [Worker -> LoopStates]
  BY NobodyIsNoWorker DEF WriteInv, OpenOrDead, PersistSample, OwnsPersist, SteadyInv,
     TypeInv, RowOK
<1>1. /\ sample'[w] = Shows(w) /\ loop'[w] = "writing" /\ lock' = w /\ dirty' = dirty \ {w}
      /\ \A v \in Worker \ {w} : sample'[v] = sample[v] /\ loop'[v] = loop[v]
      /\ UNCHANGED <<row, items, doc, typed, phase>>
  BY <1>0 DEF PersistSample, Shows, budget
<1>2. \A v \in Worker : Shows(v)' = Shows(v)
  BY <1>1 DEF Shows, TextOf, Visible
<1>3. \A v \in Worker \ {w} : loop[v] # "writing"
  BY <1>0, NobodyIsNoWorker DEF WriteInv, WriteKnowsRow
<1>4. OpenOrDead'
  BY <1>0, <1>1 DEF WriteInv, OpenOrDead
<1>5. NothingUntyped'
  BY <1>0, <1>1, ShowsOnlyTyped DEF WriteInv, NothingUntyped
<1>6. row \cap typed \subseteq Shows(w) \cup Lapsed
  BY <1>0 DEF WriteInv, OwnerKnowsRow
<1>7. OwnerKnowsRow'
  BY <1>0, <1>1, <1>2, <1>6 DEF OwnerKnowsRow
<1>8. WriteKnowsRow'
  BY <1>0, <1>1, <1>2, <1>3, <1>6 DEF WriteKnowsRow
<1>9. ShownIsKept'
  BY <1>0, <1>1, <1>2 DEF WriteInv, ShownIsKept, Kept
<1> QED
  BY <1>4, <1>5, <1>7, <1>8, <1>9 DEF WriteInv

(* A write ends: committed, refused because it is too large, or raised.    *)
LEMMA DoneKeepsWrites ==
    ASSUME WriteInv, SteadyInv', Lapsed \subseteq Lapsed', Body0 \cap EditToken = {},
           NEW w \in Worker, PersistCommit(w) \/ PersistRefused(w) \/ PersistFail(w)
    PROVE  /\ WriteInv'
           /\ (row \cap EditToken) \ row' \subseteq Lapsed
<1>0. /\ loop[w] = "writing" /\ phase[w] = "open" /\ lock = w /\ w # Nobody
      /\ row \cap typed \subseteq sample[w] \cup Lapsed /\ sample[w] \subseteq Shows(w)
      /\ sample \in [Worker -> Text] /\ loop \in [Worker -> LoopStates]
      /\ row \cap EditToken \subseteq typed /\ typed \subseteq EditToken /\ SteadyInv /\ TypeInv'
  <2>1. loop[w] = "writing"
    BY DEF WriteInv, OpenOrDead, PersistCommit, PersistRefused, PersistFail, PersistDone
  <2> QED
    BY <2>1, NobodyIsNoWorker DEF WriteInv, WriteKnowsRow, NothingUntyped, SteadyInv,
       TypeInv, RowOK
<1>1. /\ loop'[w] = "idle" /\ sample'[w] = {}
      /\ \A v \in Worker \ {w} : sample'[v] = sample[v] /\ loop'[v] = loop[v]
      /\ UNCHANGED <<items, doc, typed, phase, lock>>
  BY <1>0 DEF PersistCommit, PersistRefused, PersistFail, PersistDone, redis
<1>2. \/ row' = sample[w] /\ dirty' = dirty
      \/ row' = row /\ dirty' = dirty /\ sample[w] \in TooLarge
      \/ row' = row /\ dirty' = dirty \cup {w}
  BY <1>0 DEF PersistCommit, PersistRefused, PersistFail, DirtyAfterWrite
<1>3. \A v \in Worker : Shows(v)' = Shows(v)
  BY <1>1 DEF Shows, TextOf, Visible
<1>4. \A v \in Worker : loop'[v] # "writing"
  BY <1>0, <1>1 DEF WriteInv, WriteKnowsRow
<1>5. (row \cap EditToken) \ row' \subseteq Lapsed
  BY <1>0, <1>2
<1>6. OpenOrDead' /\ NothingUntyped'
  BY <1>0, <1>1, <1>2 DEF WriteInv, OpenOrDead, NothingUntyped
<1>7. OwnerKnowsRow'
  <2> SUFFICES ASSUME NEW v \in Worker, phase[v] = "open", lock \in {v, Nobody}
               PROVE  row' \cap typed \subseteq Shows(v) \cup Lapsed
    BY <1>1, <1>3 DEF OwnerKnowsRow
  <2>1. v = w
    BY <1>0
  <2>2. row \cap typed \subseteq Shows(v) \cup Lapsed
    BY DEF WriteInv, OwnerKnowsRow
  <2> QED
    BY <1>0, <1>2, <2>1, <2>2
<1>8. WriteKnowsRow'
  BY <1>4 DEF WriteKnowsRow
<1>9. ShownIsKept'
  <2> SUFFICES ASSUME NEW v \in Worker, phase[v] = "open", NEW t \in typed, t \in Shows(v)
               PROVE  t \in row' \/ v \in dirty' \/ Shows(v) \in TooLarge
    BY <1>1, <1>3 DEF ShownIsKept, Kept
  <2>1. t \notin Lapsed
    BY <1>0, ShownHasNotLapsed
  <2>2. \/ t \in row
        \/ v \in dirty
        \/ loop[v] = "writing" /\ t \in sample[v]
        \/ Shows(v) \in TooLarge
    BY DEF WriteInv, ShownIsKept, Kept
  <2>3. CASE t \in row
    BY <1>0, <1>5, <2>1, <2>3
  <2>4. CASE loop[v] = "writing" /\ t \in sample[v]
    <3>1. v = w
      BY <1>0, <1>1, <1>4, <2>4
    <3>2. sample[w] \in TooLarge => Shows(w) \in TooLarge
      BY <1>0, <1>3, GrownIsTooLarge
    <3> QED
      BY <1>2, <2>4, <3>1, <3>2
  <2> QED
    BY <1>2, <2>2, <2>3, <2>4
<1> QED
  BY <1>5, <1>6, <1>7, <1>8, <1>9 DEF WriteInv

LEMMA CrashKeepsWrites ==
    ASSUME WriteInv, SteadyInv', Lapsed \subseteq Lapsed', NEW w \in Worker, Crash(w)
    PROVE  WriteInv'
<1>0. /\ sample \in [Worker -> Text] /\ loop \in [Worker -> LoopStates] /\ phase \in [Worker -> Phases]
      /\ doc \in [Worker -> Doc]
  BY DEF WriteInv, SteadyInv, TypeInv, RowOK, RoomOK, DocsOK, DocsKnown
<1>1. /\ loop'[w] = "idle" /\ sample'[w] = {} /\ phase'[w] = "dead" /\ dirty' = dirty \ {w}
      /\ \A v \in Worker \ {w} : /\ sample'[v] = sample[v] /\ loop'[v] = loop[v]
                                 /\ phase'[v] = phase[v] /\ doc'[v] = doc[v]
      /\ UNCHANGED <<row, items, typed, lock>>
  BY <1>0 DEF Crash, Go, redis
<1>2. \A v \in Worker \ {w} : Shows(v)' = Shows(v)
  BY <1>1 DEF Shows, TextOf, Visible
<1>3. OpenOrDead' /\ NothingUntyped'
  BY <1>1 DEF WriteInv, OpenOrDead, NothingUntyped
<1>4. OwnerKnowsRow'
  BY <1>1, <1>2 DEF WriteInv, OwnerKnowsRow
<1>5. WriteKnowsRow'
  BY <1>1, <1>2 DEF WriteInv, WriteKnowsRow
<1>6. ShownIsKept'
  BY <1>1, <1>2 DEF WriteInv, ShownIsKept, Kept
<1> QED
  BY <1>3, <1>4, <1>5, <1>6 DEF WriteInv

LEMMA ExpiryKeepsWrites ==
    ASSUME WriteInv, SteadyInv', Lapsed \subseteq Lapsed', LockExpires
    PROVE  WriteInv'
<1>0. SteadyInv
  BY DEF WriteInv
<1>1. /\ UNCHANGED <<row, items, typed, phase, doc, dirty, loop, sample>>
      /\ lock' = Nobody /\ loop[lock] # "writing"
      /\ \A w \in Worker : inbox[w] = <<>> /\ AllPublished(w)
  BY DEF LockExpires, local, writers, budget
<1>2. \A v \in Worker : Shows(v)' = Shows(v)
  BY <1>1 DEF Shows, TextOf, Visible
<1>3. \A v \in Worker : loop[v] # "writing"
  BY <1>1 DEF WriteInv, WriteKnowsRow
<1>4. \A v \in Worker : phase[v] = "open" => typed \subseteq Shows(v) \cup Lapsed
  BY <1>0, <1>1, QuietShowsAll
<1>5. OpenOrDead' /\ NothingUntyped'
  BY <1>1 DEF WriteInv, OpenOrDead, NothingUntyped
<1>6. OwnerKnowsRow'
  BY <1>1, <1>2, <1>4 DEF OwnerKnowsRow
<1>7. WriteKnowsRow'
  BY <1>1, <1>3 DEF WriteKnowsRow
<1>8. ShownIsKept'
  BY <1>1, <1>2 DEF WriteInv, ShownIsKept, Kept
<1> QED
  BY <1>5, <1>6, <1>7, <1>8 DEF WriteInv

LEMMA WriteStep ==
    ASSUME Save = {}, MaxOpens = 0, MaxLeaves = 0, Body0 \cap EditToken = {},
           WriteInv, [Next]_vars
    PROVE  /\ WriteInv'
           /\ (row \cap EditToken) \ row' \subseteq Lapsed
<1> DEFINE Good == WriteInv' /\ (row \cap EditToken) \ row' \subseteq Lapsed
<1>0. /\ SteadyInv /\ SteadyInv'
      /\ \A w \in Worker : phase[w] \in {"open", "dead"}
      /\ \A w \in Worker : phase[w] = "dead" =>
             inbox[w] = <<>> /\ clients[w] = 0 /\ loop[w] = "idle"
      /\ \A w \in Worker : phase[w] = "open" => w \in listening
      /\ opens \in Nat /\ leaves \in Nat /\ clients \in [Worker -> Nat]
      /\ phase \in [Worker -> Phases] /\ outbox \in [Worker -> SUBSET Updates]
      /\ Len(items) \in Nat
  <2>1. SteadyInv /\ \A w \in Worker : Fed(w)
    BY DEF WriteInv, SteadyInv, SteadyAt
  <2>2. SteadyInv'
    BY <2>1, SteadyStep
  <2> QED
    BY <2>1, <2>2, SteadyTypes DEF WriteInv, OpenOrDead, Fed, TypeInv, RoomOK
<1>k. ASSUME typed' = typed, items' = items,
             \A v \in Worker : phase[v] = "dead" => phase'[v] = "dead" /\ outbox'[v] = outbox[v]
      PROVE  Lapsed \subseteq Lapsed'
  BY <1>0, <1>k, LapsedStays
<1>a. ASSUME UNCHANGED <<row, items, lock, typed, doc, phase, outbox, dirty, sample>>,
             \/ loop' = loop
             \/ \E w \in Worker, p \in {"idle", "beating", "checking"} :
                    loop[w] # "writing" /\ phase[w] = "open" /\ loop' = [loop EXCEPT ![w] = p]
      PROVE  Good
  <2>1. Lapsed \subseteq Lapsed'
    BY <1>a, <1>k
  <2> QED
    BY <1>0, <1>a, <2>1, ApartKeepsWrites
<1>1. ASSUME NEW w \in Worker, Opening(w) PROVE Good
  <2>1. ~Subscribe(w)
    BY <1>0 DEF Subscribe
  <2>2. ~OpenRoom(w)
    BY <1>0 DEF OpenRoom
  <2> QED
    BY <1>0, <1>1, <2>1, <2>2 DEF Opening, Seeding, ReadRow, SeedOwn, SeedFromDead, SeedAdopted,
       Ask, AsksNow, CaughtUp, ResetStaleSeed, GiveUp
<1>2. ASSUME NEW w \in Worker, ClientStep(w) PROVE Good
  <2>1. CASE Edit(w)
    <3>1. /\ phase[w] = "open" /\ Len(items') = Len(items) + 1 /\ phase' = phase
          /\ \A x \in 1..Len(items) : items'[x] = items[x]
          /\ \A v \in Worker \ {w} : outbox'[v] = outbox[v]
          /\ typed \subseteq typed'
      BY <1>0, <2>1, EditMakes
    <3>2. Lapsed \subseteq Lapsed'
      BY <1>0, <3>1, LapsedStays
    <3>3. row' = row
      BY <2>1 DEF Edit
    <3> QED
      BY <1>0, <2>1, <3>2, <3>3, EditKeepsWrites
  <2>2. CASE Join(w)
    BY <1>a, <2>2 DEF Join, redis, writers, budget
  <2>3. ~Leave(w)
    BY <1>0 DEF Leave
  <2> QED
    BY <1>2, <2>1, <2>2, <2>3 DEF ClientStep
<1>3. ASSUME NEW w \in Worker, Teardown(w) PROVE FALSE
  BY <1>0, <1>3 DEF Teardown, FinalSample, NothingToWrite, FinalCommit, FinalRefused, FinalFail,
     Release, Unlock
<1>4. ASSUME NEW w \in Worker, Fanout(w) PROVE Good
  <2>1. CASE Publish(w)
    <3>1. \A v \in Worker : phase[v] = "dead" => outbox'[v] = outbox[v]
      BY <1>0, <2>1 DEF Publish
    <3>2. Lapsed \subseteq Lapsed'
      BY <1>k, <2>1, <3>1 DEF Publish, local, budget
    <3> QED
      BY <1>0, <2>1, <3>2, ApartKeepsWrites DEF Publish, redis, local, writers, budget
  <2>2. CASE Receive(w)
    <3>1. ReceiveUpdate(w)
      BY <1>0, <2>2, OnlyUpdates
    <3>2. UNCHANGED <<row, items, typed, phase, outbox>>
      BY <3>1 DEF ReceiveUpdate, budget
    <3>3. Lapsed \subseteq Lapsed'
      BY <1>k, <3>2
    <3> QED
      BY <1>0, <3>1, <3>2, <3>3, ReceiveKeepsWrites
  <2> QED
    BY <1>4, <2>1, <2>2 DEF Fanout
<1>5. ASSUME NEW w \in Worker, PersistLoop(w) \/ HeartbeatLapses(w) PROVE Good
  <2>0. Lapsed \subseteq Lapsed'
    <3>1. UNCHANGED <<items, typed, phase, outbox>>
      BY <1>5 DEF PersistLoop, LoopGoesOn, Tick, KeepAlive, PersistSample, PersistSkip,
         PersistCommit,
         PersistRefused, PersistFail, PersistDone, HeartbeatLapses, local, budget
    <3> QED
      BY <1>k, <3>1
  <2>1. CASE PersistSample(w)
    BY <1>0, <2>0, <2>1, SampleKeepsWrites DEF PersistSample
  <2>2. CASE PersistCommit(w) \/ PersistRefused(w) \/ PersistFail(w)
    BY <1>0, <2>0, <2>2, DoneKeepsWrites
  <2>3. CASE Tick(w) \/ PersistSkip(w)
    <3>1. loop[w] # "writing" /\ phase[w] = "open"
      BY <1>0, <2>3 DEF Tick, PersistSkip, Registered
    <3>2. \E p \in {"idle", "beating"} : loop' = [loop EXCEPT ![w] = p]
      BY <2>3 DEF Tick, PersistSkip
    <3> QED
      BY <1>a, <2>3, <3>1, <3>2 DEF Tick, PersistSkip, redis, local, budget
  <2>4. CASE KeepAlive(w)
    <3>1. loop[w] = "beating" /\ phase[w] = "open"
      BY <1>0, <2>4 DEF KeepAlive, WriteInv, OpenOrDead
    <3> QED
      BY <1>a, <2>4, <3>1 DEF KeepAlive, local, budget
  <2>5. CASE HeartbeatLapses(w)
    BY <1>a, <2>5 DEF HeartbeatLapses, local, writers, budget
  <2> QED
    BY <1>5, <2>1, <2>2, <2>3, <2>4, <2>5 DEF PersistLoop, LoopGoesOn
<1>6. ASSUME NEW w \in Worker, Crash(w) PROVE Good
  <2>1. /\ \A v \in Worker : phase[v] = "dead" => phase'[v] = "dead"
        /\ UNCHANGED <<row, items, typed, outbox>>
    BY <1>0, <1>6 DEF Crash, Go
  <2>2. Lapsed \subseteq Lapsed'
    BY <1>k, <2>1
  <2> QED
    BY <1>0, <1>6, <2>1, <2>2, CrashKeepsWrites
<1>7. CASE LockExpires
  <2>1. UNCHANGED <<row, items, typed, phase, outbox>>
    BY <1>7 DEF LockExpires, local, budget
  <2>2. Lapsed \subseteq Lapsed'
    BY <1>k, <2>1
  <2> QED
    BY <1>0, <1>7, <2>1, <2>2, ExpiryKeepsWrites
<1>8. CASE SeedExpires \/ UNCHANGED vars
  BY <1>a, <1>8 DEF SeedExpires, vars, redis, local, writers, budget
<1> QED
  BY <1>1, <1>2, <1>3, <1>4, <1>5, <1>6, <1>7, <1>8 DEF Next

LEMMA WriteStart == ASSUME Body0 \cap EditToken = {} PROVE SteadyInit => WriteInv
<1> SUFFICES ASSUME SteadyInit PROVE WriteInv
  OBVIOUS
<1>1. SteadyInv
  BY SteadyStart
<1>2. OpenOrDead /\ OwnerKnowsRow /\ WriteKnowsRow /\ ShownIsKept /\ NothingUntyped
  BY DEF SteadyInit, OpenOrDead, OwnerKnowsRow, WriteKnowsRow, ShownIsKept, NothingUntyped
<1> QED
  BY <1>1, <1>2 DEF WriteInv

LEMMA WriteInvHolds ==
    ASSUME Save = {}, MaxOpens = 0, MaxLeaves = 0, Body0 \cap EditToken = {}
    PROVE  SteadyInit /\ [][Next]_vars => []WriteInv
<1>1. WriteInv /\ [Next]_vars => WriteInv'
  BY WriteStep
<1> QED
  BY <1>1, WriteStart, PTL

(* No write takes a keystroke back that another one saved, whichever       *)
(* worker dies, whatever is refused and whenever the lock runs out: only   *)
(* what its worker wrote and died before publishing can go (collab.py:     *)
(* 23-28, 187-191, 498-520).                                               *)
THEOREM RowKeepsEditsHolds ==
    ASSUME Save = {}, MaxOpens = 0, MaxLeaves = 0, Body0 \cap EditToken = {}
    PROVE  SteadyInit /\ [][Next]_vars => RowKeepsEdits
<1>1. WriteInv /\ [Next]_vars => [\A t \in (row \cap EditToken) \ row' : DiedUnheard(t)]_row
  <2> SUFFICES ASSUME WriteInv, [Next]_vars, NEW t \in (row \cap EditToken) \ row'
               PROVE  DiedUnheard(t)
    OBVIOUS
  <2>1. t \in Lapsed
    BY WriteStep
  <2> QED
    BY <2>1 DEF Lapsed
<1> QED
  BY <1>1, WriteInvHolds, PTL DEF RowKeepsEdits

(* The dead are no more than the crashes, so one worker is left.           *)
Dead == {w \in Worker : phase[w] = "dead"}
DeadCounted == Cardinality(Dead) <= crashes /\ crashes <= MaxCrashes

LEMMA OneMore ==
    ASSUME NEW D, NEW w, IsFiniteSet(D)
    PROVE  /\ Cardinality(D \cup {w}) <= Cardinality(D) + 1
           /\ Cardinality(D \cup {w}) \in Nat /\ Cardinality(D) \in Nat
<1>1. IsFiniteSet(D \cup {w}) /\ Cardinality(D \cup {w}) = IF w \in D THEN Cardinality(D) ELSE Cardinality(D) + 1
  BY FS_AddElement
<1>2. Cardinality(D \cup {w}) \in Nat /\ Cardinality(D) \in Nat
  BY <1>1, FS_CardinalityType
<1> QED
  BY <1>1, <1>2

LEMMA DeadStep ==
    ASSUME IsFiniteSet(Worker), TypeInv, DeadCounted, [Next]_vars
    PROVE  DeadCounted'
<1>0. /\ phase \in [Worker -> Phases] /\ crashes \in Nat /\ MaxCrashes \in Nat
      /\ IsFiniteSet(Dead) /\ Cardinality(Dead) \in Nat
  BY FS_Subset, FS_CardinalityType, BoundsAreNaturals DEF TypeInv, RoomOK, Dead
<1>a. ASSUME crashes' = crashes, phase' = phase \/ \E w \in Worker, p \in Phases \ {"dead"} :
                                     phase[w] # "dead" /\ phase' = [phase EXCEPT ![w] = p]
      PROVE  DeadCounted'
  <2>1. Dead' = Dead
    BY <1>0, <1>a DEF Dead
  <2> QED
    BY <1>a, <2>1 DEF DeadCounted
<1>1. CASE \E w \in Worker : Crash(w)
  <2>1. PICK w \in Worker : Crash(w)
    BY <1>1
  <2>2. crashes' = crashes + 1 /\ crashes < MaxCrashes
    BY <2>1 DEF Crash
  <2>3. Dead' = Dead \cup {w}
    BY <1>0, <2>1 DEF Crash, Go, Dead
  <2> DEFINE more == Dead \cup {w}
  <2>4. Cardinality(more) <= Cardinality(Dead) + 1 /\ Cardinality(more) \in Nat
    BY <1>0, OneMore
  <2>5. Cardinality(Dead)' = Cardinality(more)
    BY <2>3
  <2> HIDE DEF more
  <2>6. Cardinality(Dead) <= crashes
    BY DEF DeadCounted
  <2>7. Cardinality(more) <= crashes + 1 /\ crashes + 1 <= MaxCrashes
    BY <1>0, <2>2, <2>4, <2>6
  <2>8. Cardinality(Dead)' <= crashes' /\ crashes' <= MaxCrashes
    BY <2>2, <2>5, <2>7
  <2> QED
    BY <2>8 DEF DeadCounted
<1>2. ASSUME NEW w \in Worker, Opening(w) PROVE DeadCounted'
  BY <1>a, <1>2 DEF Opening, Seeding, OpenRoom, ReadRow, SeedOwn, SeedFromDead,
     SeedAdopted, Subscribe, Ask, AsksNow,
     CaughtUp, ResetStaleSeed, GiveUp, Serve, Go, budget, Phases, Initialising
<1>3. ASSUME NEW w \in Worker, ClientStep(w) \/ Teardown(w) PROVE DeadCounted'
  BY <1>a, <1>3 DEF ClientStep, Join, Edit, Leave, Teardown, FinalSample,
     NothingToWrite, FinalCommit, FinalRefused,
     FinalFail, Release, Unlock, Go, budget, Phases, Closing
<1>4. ASSUME NEW w \in Worker, Fanout(w) \/ PersistLoop(w) \/ HeartbeatLapses(w) PROVE DeadCounted'
  BY <1>a, <1>4 DEF Fanout, Publish, Receive, ReceiveUpdate, ReceiveRequest,
     ReceiveReset, PersistLoop, LoopGoesOn, Tick, KeepAlive,
     PersistSample, PersistSkip, PersistCommit, PersistRefused, PersistFail,
     PersistDone, HeartbeatLapses, local, budget
<1>5. CASE \/ \E s \in Save : SyncRoom(s) \/ \E w \in Worker : CommitSave(s, w)
           \/ SeedExpires \/ LockExpires \/ UNCHANGED vars
  BY <1>a, <1>5 DEF SyncRoom, CommitSave, SeedExpires, LockExpires, vars, local, budget
<1> QED
  BY <1>1, <1>2, <1>3, <1>4, <1>5 DEF Next

LEMMA KeptIsAccountedFor ==
    ASSUME WriteInv, NEW w \in Worker, phase[w] = "open", NEW t \in typed, t \in Shows(w)
    PROVE  t \in row \/ Pending(t) \/ OverTheLimit(t)
<1>1. Kept(w, t)
  BY DEF WriteInv, ShownIsKept
<1> QED
  BY <1>1 DEF Kept, Pending, OverTheLimit, Shows

LEMMA QueuedIsComing == ASSUME SteadyInv, NEW w \in Worker PROVE Queued(w) \subseteq Coming(w)
<1> SUFFICES ASSUME NEW x \in Queued(w) PROVE x \in Coming(w)
  OBVIOUS
<1>1. PICK k \in 1..Len(inbox[w]) : Carries(inbox[w][k], x)
  BY DEF Queued
<1>2. inbox[w][k].type = "update" /\ inbox[w][k].update.has = {x}
  BY <1>1, CarriesOne
<1>3. k \in DOMAIN inbox[w]
  <2>1. inbox[w] \in Seq(Messages)
    BY SteadyTypes
  <2> QED
    BY <2>1
<1> QED
  BY <1>2, <1>3 DEF Coming

(* A keystroke of a room that stays open is in the row, or somebody is     *)
(* bound to write it, or it or what it waits for is about to arrive where  *)
(* it will be -- as long as one worker lives, unless the keystroke died    *)
(* unsent or the text has grown too large to be written (collab.py:        *)
(* 187-188, 420-423, 532, 542-545).                                        *)
THEOREM SavedOrPendingHolds ==
    ASSUME Save = {}, MaxOpens = 0, MaxLeaves = 0, Body0 \cap EditToken = {},
           IsFiniteSet(Worker), MaxCrashes < Cardinality(Worker)
    PROVE  SteadyInit /\ [][Next]_vars => []SavedOrPending
<1>1. SteadyInit => DeadCounted
  <2> SUFFICES ASSUME SteadyInit PROVE DeadCounted
    OBVIOUS
  <2>1. Dead = {} /\ crashes = 0
    BY DEF SteadyInit, Dead
  <2> QED
    BY <2>1, FS_EmptySet, BoundsAreNaturals DEF DeadCounted
<1>2. TypeInv /\ DeadCounted /\ [Next]_vars => DeadCounted'
  BY DeadStep
<1>3. WriteInv => TypeInv
  BY DEF WriteInv, SteadyInv
<1>4. WriteInv /\ DeadCounted => SavedOrPending
  <2> SUFFICES ASSUME WriteInv, DeadCounted, NEW t \in typed, t \notin row, ~DiedUnheard(t)
               PROVE  Pending(t) \/ OverTheLimit(t)
    BY DEF SavedOrPending
  <2>0. SteadyInv /\ \A v \in Worker : phase[v] \in {"open", "dead"}
    BY DEF WriteInv, OpenOrDead
  <2>1. PICK w \in Worker : phase[w] = "open"
    <3>1. Dead # Worker
      <4>1. crashes \in Nat /\ MaxCrashes \in Nat /\ Cardinality(Worker) \in Nat
        BY <1>3, FS_CardinalityType, BoundsAreNaturals DEF TypeInv, RoomOK
      <4> QED
        BY <4>1 DEF DeadCounted
    <3> QED
      BY <2>0, <3>1 DEF Dead
  <2>2. PICK x \in 2..Len(items) : items[x].text = {t}
    BY <2>0, SteadyTypes DEF Keystrokes
  <2>3. x \in 1..Len(items) /\ x \notin Unheard
    BY <2>2 DEF DiedUnheard
  <2>4. \A v \in Worker : phase[v] = "open" /\ x \in doc[v].has => Pending(t) \/ OverTheLimit(t)
    <3> SUFFICES ASSUME NEW v \in Worker, phase[v] = "open", x \in doc[v].has
                 PROVE  Pending(t) \/ OverTheLimit(t)
      OBVIOUS
    <3>1. t \in Shows(v)
      BY <2>0, <2>2, ShowsItems
    <3> QED
      BY <3>1, KeptIsAccountedFor
  <2>5. CASE x \notin doc[w].has
    <3>1. PICK y \in {x} \cup items[x].deps :
              /\ x \in doc[w].wait \cup Queued(w) \/ y = x
              /\ y \in Queued(w) \/ \E v \in Worker : y \in Sending(v)
      BY <2>0, <2>1, <2>3, <2>5, MissingIsSomewhere
    <3>2. CASE y \in Queued(w)
      <4>1. Queued(w) \subseteq Coming(w)
        BY <2>0, QueuedIsComing
      <4>2. x \in Coming(w) \cup doc[w].wait /\ y \in Coming(w)
        BY <3>1, <3>2, <4>1
      <4>3. OnItsWay(t, w)
        BY <2>2, <4>2 DEF OnItsWay
      <4> QED
        BY <4>3 DEF Pending
    <3>3. ASSUME NEW v \in Worker, y \in Sending(v) PROVE Pending(t) \/ OverTheLimit(t)
      <4>1. phase[v] = "open"
        BY <2>0, <2>3, <3>3, SendingIsUnsent
      <4>2. Authored(v)
        BY <2>0 DEF SteadyInv, SteadyAt
      <4>3. x \in doc[v].has
        BY <2>3, <3>3, <4>1, <4>2 DEF Authored
      <4> QED
        BY <2>4, <4>1, <4>3
    <3> QED
      BY <3>1, <3>2, <3>3
  <2> QED
    BY <2>1, <2>4, <2>5
<1> QED
  BY <1>1, <1>2, <1>3, <1>4, WriteInvHolds, PTL
=============================================================================
