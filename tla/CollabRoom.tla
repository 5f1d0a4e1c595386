------------------------------ MODULE CollabRoom ------------------------------
(***************************************************************************)
(* The live collaboration room of ONE note, as back/app/core/collab.py     *)
(* runs it: every uvicorn worker may hold its own replica of the note's    *)
(* CRDT document, the replicas talk through Redis pub/sub, one worker at a *)
(* time writes the text back to the note's row, and REST saves reset the   *)
(* replicas.  One action is what a coroutine does between two awaits that  *)
(* another party can observe.                                              *)
(*                                                                         *)
(* Data.  A text is the set of tokens it shows; order is not modelled.  A  *)
(* CRDT item is one insertion: its text and the items its author had seen. *)
(* A document is the items it has integrated, the tombstones, and the      *)
(* items that wait for a missing predecessor (the Yjs pending store).      *)
(*                                                                         *)
(* Redis is up.  A worker that dies comes back under a new worker id, so a *)
(* dead worker never returns; a browser that loses its socket rebuilds its *)
(* session with a fresh document, so a client keeps no items of its own.   *)
(* What a room has integrated is published by a task of its own: until     *)
(* that has run the update is in nobody else's hands.                      *)
(***************************************************************************)
EXTENDS Naturals, Sequences, FiniteSets

CONSTANTS
    Worker,      \* worker ids
    Nobody,      \* the persist lock's value when the key is absent
    Body0,       \* the note's row before anything happens (a set of tokens)
    EditToken,   \* the keystrokes: each is typed at most once
    Save,        \* the REST saves: each happens at most once
    SaveBody,    \* the text each of them saves
    TooLarge,    \* the texts over MAX_NOTE_SIZE_BYTES: no write takes them
    EarlyJoin,   \* may a second client come while the room initialises?
    Prompt,      \* is Redis quicker than people and teardowns?
    MaxEdits,    \* bound: how many of the keystrokes are typed
    MaxOpens,    \* bound: how often a room is opened
    MaxClients,  \* bound: clients of one worker
    MaxLeaves,   \* bound: websockets that close
    MaxCrashes,  \* bound: workers that die
    MaxFails     \* bound: database writes that raise

Token == Body0 \cup EditToken \cup UNION {SaveBody[s] : s \in Save}
Text == SUBSET Token
Update == [has : SUBSET Nat, gone : SUBSET Nat]
Doc == [has : SUBSET Nat, gone : SUBSET Nat, wait : SUBSET Nat]

ASSUME NobodyIsNoWorker == Nobody \notin Worker
ASSUME SavesHaveBodies == DOMAIN SaveBody = Save
ASSUME MoreIsLarger ==
    /\ TooLarge \subseteq Text /\ Body0 \notin TooLarge
    /\ \A long \in TooLarge, text \in Text : long \subseteq text => text \in TooLarge
ASSUME BoundsAreNaturals ==
    /\ MaxEdits \in Nat /\ MaxOpens \in Nat /\ MaxClients \in Nat
    /\ MaxLeaves \in Nat /\ MaxCrashes \in Nat /\ MaxFails \in Nat
    /\ EarlyJoin \in BOOLEAN /\ Prompt \in BOOLEAN

VARIABLES
    row,        \* Note.content
    items,      \* every CRDT insertion ever made: [text, deps]
    seed,       \* collab-seed:{room}
    holders,    \* members of collab-holders:{room}
    fresh,      \* ... whose score is inside LIVE_WINDOW_SECONDS
    lock,       \* collab-persist:{room}
    taken,      \* collab-resetlock:{room}:{nonce}
    inbox,      \* pub/sub messages on their way to a subscriber
    outbox,     \* updates whose _publish task has not run yet
    phase,      \* where the worker's room is in its life
    doc,        \* room.ydoc
    dbText,     \* the `content` _init_room read
    dirty,      \* workers whose state.dirty is set
    listening,  \* workers whose state.subscribed is set
    synced,     \* workers whose state.synced is set
    clients,    \* websockets served by the worker's room
    loop,       \* where _persist_loop is with this room
    sample,     \* the text _persist_loop is writing
    final,      \* the text delete_room's final _persist is writing
    save,       \* how far each REST save got, and where
    typed,      \* keystrokes used up
    opens, leaves, crashes, fails

redis == <<seed, holders, fresh, lock, taken>>
local == <<phase, doc, dbText, dirty, listening, synced, clients>>
writers == <<loop, sample, final>>
budget == <<typed, opens, leaves, crashes, fails>>
vars == <<row, items, redis, inbox, outbox, local, writers, save, budget>>

Initialising == {"reading", "seeding", "asking", "waiting"}
Closing == {"closing", "final", "releasing", "unlocking"}
Phases == {"none", "open", "dead"} \cup Initialising \cup Closing

(* Where self.rooms holds a room, where self.states holds its state, and    *)
(* where ydoc.observe(on_update) sees its changes.                         *)
HasRoom(w) == phase[w] \in {"open"} \cup Initialising \cup Closing
Registered(w) == phase[w] \in {"seeding", "asking", "waiting", "open"}
ObservedOpeningOnly(w) == phase[w] \in {"asking", "waiting"}  \* mutant
Observed(w) == phase[w] \in {"asking", "waiting", "open"} \cup Closing

NoSeed == {0}  \* the seed key is absent; item ids start at 1

Updates == [type : {"update"}, update : Update]
Messages ==
    Updates
        \cup [type : {"request"}, from : Worker]
        \cup [type : {"reset"}, save : Save]

-----------------------------------------------------------------------------
(* The CRDT.  An item is integrated once everything its author had seen    *)
(* has been; until then it waits.                                          *)

EmptyDoc == [has |-> {}, gone |-> {}, wait |-> {}]

Visible(d) == d.has \ d.gone
TextOf(d) == UNION {items[i].text : i \in Visible(d)}

Merge(d, u) ==
    LET pool == d.wait \cup u.has
        ready == {i \in pool : items[i].deps \subseteq d.has \cup pool}
    IN  [has |-> d.has \cup ready,
         gone |-> d.gone \cup u.gone,
         wait |-> pool \ (d.has \cup ready)]

(* The next insertion, made by someone who has seen all of d. *)
NextItem == Len(items) + 1
Insert(d, text) == Append(items, [text |-> text, deps |-> d.has])

(* Publishing m: it joins the queue (inb) of everyone subscribed but the   *)
(* sender, for Redis keeps the order of publication per subscriber.        *)
Posted(inb, w, m) ==
    [v \in Worker |-> IF v \in listening \ {w} THEN Append(inb[v], m) ELSE inb[v]]

UpdateMsg(has, gone) == [type |-> "update", update |-> [has |-> has, gone |-> gone]]

(* on_update starts a task that will publish the edit.                     *)
ToPublish(w, m) == [outbox EXCEPT ![w] = @ \cup {m}]

(* _reset_local on the document d: clear the text and insert the new one,  *)
(* unless d shows it already.  The observer, where there is one, has the   *)
(* edit published.  The text is in the row, so the room is not dirty --    *)
(* but the state of a room being torn down is no longer found to say so.   *)
ResetLocal(w, d, text, observed) ==
    IF TextOf(d) = text
    THEN /\ doc' = [doc EXCEPT ![w] = d]
         /\ UNCHANGED <<items, dirty, outbox>>
    ELSE LET new == IF text = {} THEN {} ELSE {NextItem}
         IN  /\ items' = IF text = {} THEN items ELSE Insert(d, text)
             /\ doc' = [doc EXCEPT ![w] = [d EXCEPT !.has = @ \cup new,
                                                    !.gone = @ \cup Visible(d)]]
             /\ outbox' = IF observed THEN ToPublish(w, UpdateMsg(new, Visible(d))) ELSE outbox
             /\ dirty' = IF phase[w] = "closing" THEN dirty \cup {w} ELSE dirty \ {w}

(* _maybe_apply_reset: only if the text differs, and only by the first     *)
(* worker to take this save's lock.                                        *)
ResetIfDiffering(w, s) == TextOf(doc[w]) # SaveBody[s]  \* mutant
WinsReset(w, s) == TextOf(doc[w]) # SaveBody[s] /\ s \notin taken

MaybeApplyReset(w, s) ==
    IF WinsReset(w, s)
    THEN /\ taken' = taken \cup {s}
         /\ ResetLocal(w, doc[w], SaveBody[s], Observed(w))
    ELSE UNCHANGED <<taken, items, doc, dirty, outbox>>

-----------------------------------------------------------------------------
(* Opening a room: get_room and _init_room.                                *)

Go(w, p) == phase' = [phase EXCEPT ![w] = p]

(* The first websocket: no room and no teardown to wait for. *)
OpenRoom(w) ==
    /\ phase[w] = "none"
    /\ opens < MaxOpens
    /\ opens' = opens + 1
    /\ Go(w, "reading")
    /\ doc' = [doc EXCEPT ![w] = EmptyDoc]
    /\ UNCHANGED <<row, items, redis, inbox, outbox, dbText, dirty, listening, synced,
                   clients, writers, save, typed, leaves, crashes, fails>>

(* The SELECT returns; the state is registered without another await. *)
ReadRow(w) ==
    /\ phase[w] = "reading"
    /\ Go(w, "seeding")
    /\ dbText' = [dbText EXCEPT ![w] = row]
    /\ UNCHANGED <<row, items, redis, inbox, outbox, doc, dirty, listening, synced,
                   clients, writers, save, budget>>

(* _ACQUIRE_LUA's ZADD, after it counted the live members. *)
Hold(w) ==
    /\ holders' = holders \cup {w}
    /\ fresh' = fresh \cup {w}

(* get_room returns to the socket that opened the room. *)
Serve(w) ==
    /\ Go(w, "open")
    /\ clients' = [clients EXCEPT ![w] = @ + 1]

(* The seed this worker would build from the row it read has no items when *)
(* that row is empty: those bytes equal any other empty seed's.            *)
AdoptsNothing(w) == FALSE  \* mutant
Adopts(w) == seed # NoSeed /\ ~(seed = {} /\ dbText[w] = {})

(* SET NX succeeds, or the stored bytes are the same: the seed counts as   *)
(* this worker's own and there is no catch-up.                             *)
SeedOwn(w) ==
    /\ phase[w] = "seeding"
    /\ ~Adopts(w)
    /\ Hold(w)
    /\ LET mine == IF dbText[w] = {} THEN {} ELSE {NextItem}
       IN  /\ items' = IF mine = {} THEN items
                       ELSE Append(items, [text |-> dbText[w], deps |-> {}])
           /\ seed' = mine
           /\ doc' = [doc EXCEPT ![w].has = @ \cup mine]
    /\ Serve(w)
    /\ UNCHANGED <<row, lock, taken, inbox, outbox, dbText, dirty, listening, synced,
                   writers, save, budget>>

Seeded(w) == Merge(doc[w], [has |-> seed, gone |-> {}])

(* Someone else's seed and nobody live: _catch_up lets the row win at once. *)
SeedFromDead(w) ==
    /\ phase[w] = "seeding"
    /\ Adopts(w)
    /\ fresh = {}
    /\ Hold(w)
    /\ ResetLocal(w, Seeded(w), dbText[w], TRUE)
    /\ Serve(w)
    /\ UNCHANGED <<row, inbox, seed, lock, taken, dbText, listening, synced, writers,
                   save, budget>>

(* Someone else's seed and a live holder: ask it. *)
SeedAdopted(w) ==
    /\ phase[w] = "seeding"
    /\ Adopts(w)
    /\ fresh # {}
    /\ Hold(w)
    /\ doc' = [doc EXCEPT ![w] = Seeded(w)]
    /\ Go(w, "asking")
    /\ UNCHANGED <<row, items, seed, lock, taken, inbox, outbox, dbText, dirty, listening,
                   synced, clients, writers, save, budget>>

(* The pub/sub task is connected. *)
Subscribe(w) ==
    /\ phase[w] \in {"asking", "waiting", "open"}
    /\ w \notin listening
    /\ listening' = listening \cup {w}
    /\ UNCHANGED <<row, items, redis, inbox, outbox, phase, doc, dbText, dirty, synced,
                   clients, writers, save, budget>>

(* One round of _catch_up: REQ goes out, and again while nothing came      *)
(* back.  A round (SYNC_WAIT_SECONDS) is long enough for the last request  *)
(* to have been read.                                                      *)
Asked(w) ==
    \E v \in Worker : \E i \in DOMAIN inbox[v] :
        inbox[v][i].type = "request" /\ inbox[v][i].from = w

AsksOnce(w) == phase[w] = "asking"  \* mutant
AsksNow(w) ==
    \/ phase[w] = "asking"
    \/ phase[w] = "waiting" /\ w \notin synced /\ ~Asked(w) /\ inbox[w] = <<>>

Ask(w) ==
    /\ AsksNow(w)
    /\ w \in listening
    /\ Go(w, "waiting")
    /\ inbox' = Posted(inbox, w, [type |-> "request", from |-> w])
    /\ UNCHANGED <<row, items, outbox, redis, doc, dbText, dirty, listening, synced,
                   clients, writers, save, budget>>

(* Anything on the update channel counts as the answer. *)
CaughtUp(w) ==
    /\ phase[w] = "waiting"
    /\ w \in synced
    /\ Serve(w)
    /\ UNCHANGED <<row, items, redis, inbox, outbox, doc, dbText, dirty, listening,
                   synced, writers, save, budget>>

NoLiveOthers(w) == {}  \* mutant
LiveOthers(w) == fresh \ {w}

(* A round timed out and no live holder is left: the row wins.  Unless     *)
(* Redis is prompt, the holder may have answered and left with its answer  *)
(* still on the way.                                                       *)
ResetStaleSeed(w) ==
    /\ phase[w] = "waiting"
    /\ w \notin synced
    /\ LiveOthers(w) = {}
    /\ Prompt => inbox[w] = <<>>
    /\ ResetLocal(w, doc[w], dbText[w], TRUE)
    /\ Serve(w)
    /\ UNCHANGED <<row, redis, inbox, dbText, listening, synced, writers, save, budget>>

(* CATCH_UP_MAX_SECONDS passed: keep the seed.  A worker that has the room *)
(* answers or leaves sooner, so this happens to those who ask the dead:    *)
(* 8 seconds of asking end before the 12 that a heartbeat counts.          *)
GiveUp(w) ==
    /\ phase[w] = "waiting"
    /\ w \notin synced
    /\ LiveOthers(w) # {}
    /\ \A v \in LiveOthers(w) : ~HasRoom(v)
    /\ Serve(w)
    /\ UNCHANGED <<row, items, redis, inbox, outbox, doc, dbText, dirty, listening,
                   synced, writers, save, budget>>

-----------------------------------------------------------------------------
(* Clients of a room.                                                      *)

(* With a prompt Redis, nobody types before every open room's subscription *)
(* is in place, and nobody leaves before what they typed is published, nor *)
(* while a worker is catching up or its request is still to be answered.   *)
AllSubscribed == \A v \in Worker : phase[v] = "open" => v \in listening
NobodyCatchesUp == \A v \in Worker : phase[v] \notin {"asking", "waiting"} /\ ~Asked(v)

(* A further websocket: get_room finds the name in self.rooms.  While the  *)
(* room is torn down it waits instead; afterwards it opens a fresh one.    *)
FindsAnyRoom(w) == HasRoom(w)  \* mutant
FindsRoom(w) == phase[w] = "open" \/ (EarlyJoin /\ phase[w] \in Initialising)

Join(w) ==
    /\ FindsRoom(w)
    /\ clients[w] < MaxClients
    /\ clients' = [clients EXCEPT ![w] = @ + 1]
    /\ UNCHANGED <<row, items, redis, inbox, outbox, phase, doc, dbText, dirty,
                   listening, synced, writers, save, budget>>

(* A client types: the room integrates it, and on_update, once it is       *)
(* registered, marks the room dirty and starts the task that publishes.    *)
Edit(w) ==
    /\ clients[w] > 0
    /\ Prompt => AllSubscribed
    /\ Cardinality(typed) < MaxEdits
    /\ \E t \in EditToken \ typed :
        /\ typed' = typed \cup {t}
        /\ items' = Insert(doc[w], {t})
    /\ doc' = [doc EXCEPT ![w].has = @ \cup {NextItem}]
    /\ IF Observed(w)
       THEN /\ dirty' = dirty \cup {w}
            /\ outbox' = ToPublish(w, UpdateMsg({NextItem}, {}))
       ELSE UNCHANGED <<dirty, outbox>>
    /\ UNCHANGED <<row, redis, inbox, phase, dbText, listening, synced, clients,
                   writers, save, opens, leaves, crashes, fails>>

(* A websocket closes; with the last one delete_room drops the state and   *)
(* cancels the pub/sub task.  Someone leaving before get_room has returned *)
(* to the opener is not modelled.                                          *)
LastClient(w) == clients[w] = 1

Leave(w) ==
    /\ phase[w] = "open"
    /\ clients[w] > 0
    /\ Prompt => NobodyCatchesUp /\ outbox[w] = {}
    /\ leaves < MaxLeaves
    /\ leaves' = leaves + 1
    /\ clients' = [clients EXCEPT ![w] = @ - 1]
    /\ IF LastClient(w)
       THEN /\ Go(w, "closing")
            /\ listening' = listening \ {w}
            /\ synced' = synced \ {w}
            /\ inbox' = [inbox EXCEPT ![w] = <<>>]
       ELSE UNCHANGED <<phase, listening, synced, inbox>>
    /\ UNCHANGED <<row, items, redis, outbox, doc, dbText, dirty, writers, save, typed, opens,
                   crashes, fails>>

-----------------------------------------------------------------------------
(* Tearing a room down: the rest of delete_room.                           *)

(* The final _persist takes the lock if it is free and writes regardless.  *)
FinalSample(w) ==
    /\ phase[w] = "closing"
    /\ w \in dirty
    /\ Go(w, "final")
    /\ lock' = IF lock = Nobody THEN w ELSE lock
    /\ dirty' = dirty \ {w}
    /\ final' = [final EXCEPT ![w] = TextOf(doc[w])]
    /\ UNCHANGED <<row, items, seed, holders, fresh, taken, inbox, outbox, doc, dbText,
                   listening, synced, clients, loop, sample, save, budget>>

NothingToWrite(w) ==
    /\ phase[w] = "closing"
    /\ w \notin dirty
    /\ Go(w, "releasing")
    /\ UNCHANGED <<row, items, redis, inbox, outbox, doc, dbText, dirty, listening,
                   synced, clients, writers, save, budget>>

FinalCommit(w) ==
    /\ phase[w] = "final"
    /\ final[w] \notin TooLarge
    /\ Go(w, "releasing")
    /\ row' = final[w]
    /\ final' = [final EXCEPT ![w] = {}]
    /\ UNCHANGED <<items, redis, inbox, outbox, doc, dbText, dirty, listening, synced,
                   clients, loop, sample, save, budget>>

(* update_content answers that the note is too large: a warning, no more.  *)
FinalRefused(w) ==
    /\ phase[w] = "final"
    /\ final[w] \in TooLarge
    /\ Go(w, "releasing")
    /\ final' = [final EXCEPT ![w] = {}]
    /\ UNCHANGED <<row, items, redis, inbox, outbox, doc, dbText, dirty, listening,
                   synced, clients, loop, sample, save, budget>>

(* The write raises: state.dirty is set on a state nobody reads again. *)
FinalFail(w) ==
    /\ phase[w] = "final"
    /\ fails < MaxFails
    /\ fails' = fails + 1
    /\ Go(w, "releasing")
    /\ final' = [final EXCEPT ![w] = {}]
    /\ UNCHANGED <<row, items, redis, inbox, outbox, doc, dbText, dirty, listening,
                   synced, clients, loop, sample, save, typed, opens, leaves, crashes>>

(* _RELEASE_LUA: the seed goes with the last member, dead ones counted.    *)
(* A prompt Redis has taken what the room published by then.               *)
ForgetSeed(w) == NoSeed  \* mutant
SeedLeftBy(w) == IF holders \ {w} = {} THEN NoSeed ELSE seed

Release(w) ==
    /\ phase[w] = "releasing"
    /\ Prompt => outbox[w] = {}
    /\ Go(w, "unlocking")
    /\ holders' = holders \ {w}
    /\ fresh' = fresh \ {w}
    /\ seed' = SeedLeftBy(w)
    /\ UNCHANGED <<row, items, lock, taken, inbox, outbox, doc, dbText, dirty, listening,
                   synced, clients, writers, save, budget>>

(* _drop_persist_lock, and self.rooms forgets the room.  A tick of the     *)
(* loop that is under way goes on with the dropped room and state: it can  *)
(* still send its heartbeat, and still commit a text it sampled.           *)
Unlock(w) ==
    /\ phase[w] = "unlocking"
    /\ Go(w, "none")
    /\ lock' = IF lock = w THEN Nobody ELSE lock
    /\ loop' = [loop EXCEPT ![w] = CASE @ = "beating" -> "ghost"
                                     [] @ = "writing" -> "orphan"
                                     [] @ = "checking" -> "idle"
                                     [] OTHER -> @]
    /\ dirty' = dirty \ {w}
    /\ doc' = [doc EXCEPT ![w] = EmptyDoc]
    /\ dbText' = [dbText EXCEPT ![w] = {}]
    /\ UNCHANGED <<row, items, seed, holders, fresh, taken, inbox, outbox, listening,
                   synced, clients, sample, final, save, budget>>

-----------------------------------------------------------------------------
(* The pub/sub task: _subscribe's message loop.                            *)

(* A _publish task runs, in no particular order: each takes a connection   *)
(* of the pool.  Tearing the room down cancels none of them.               *)
Publish(w) ==
    /\ phase[w] # "dead"
    /\ \E m \in outbox[w] :
        /\ outbox' = [outbox EXCEPT ![w] = @ \ {m}]
        /\ inbox' = Posted(inbox, w, m)
    /\ UNCHANGED <<row, items, redis, local, writers, save, budget>>

Arrived(w, type) == inbox[w] # <<>> /\ Head(inbox[w]).type = type
Consumed(w) == [inbox EXCEPT ![w] = Tail(@)]

ReceiveUpdate(w) ==
    /\ Arrived(w, "update")
    /\ inbox' = Consumed(w)
    /\ synced' = synced \cup {w}
    /\ LET d == Merge(doc[w], Head(inbox[w]).update)
       IN  /\ doc' = [doc EXCEPT ![w] = d]
           /\ dirty' = IF <<d.has, d.gone>> # <<doc[w].has, doc[w].gone>>
                       THEN dirty \cup {w} ELSE dirty
    /\ UNCHANGED <<row, items, redis, outbox, phase, dbText, listening, clients,
                   writers, save, budget>>

(* _answer_sync: the whole document, on the ordinary channel. *)
ReceiveRequest(w) ==
    /\ Arrived(w, "request")
    /\ inbox' = Posted(Consumed(w), w, UpdateMsg(doc[w].has, doc[w].gone))
    /\ UNCHANGED <<row, items, redis, outbox, local, writers, save, budget>>

ReceiveReset(w) ==
    /\ Arrived(w, "reset")
    /\ inbox' = Consumed(w)
    /\ MaybeApplyReset(w, Head(inbox[w]).save)
    /\ UNCHANGED <<row, seed, holders, fresh, lock, phase, dbText, listening,
                   synced, clients, writers, save, budget>>

-----------------------------------------------------------------------------
(* A REST save handled by worker w: update_content commits the row, and    *)
(* then calls sync_room.  One that is too large changes nothing.           *)

CommitSave(s, w) ==
    /\ save[s].pc = "idle"
    /\ SaveBody[s] \notin TooLarge
    /\ phase[w] # "dead"
    /\ save' = [save EXCEPT ![s] = [pc |-> "committed", at |-> w]]
    /\ row' = SaveBody[s]
    /\ UNCHANGED <<items, redis, inbox, outbox, local, writers, budget>>

(* The handler's own room first, then everybody through the reset channel. *)
SyncRoom(s) ==
    LET w == save[s].at
    IN  /\ save[s].pc = "committed"
        /\ phase[w] # "dead"
        /\ save' = [save EXCEPT ![s].pc = "done"]
        /\ IF HasRoom(w)
           THEN MaybeApplyReset(w, s)
           ELSE UNCHANGED <<taken, items, doc, dirty, outbox>>
        /\ inbox' = Posted(inbox, w, [type |-> "reset", save |-> s])
        /\ UNCHANGED <<row, seed, holders, fresh, lock, phase, dbText, listening,
                       synced, clients, writers, budget>>

-----------------------------------------------------------------------------
(* The persist loop, for this room.                                        *)

(* list(self.states.items()) and self.rooms.get(name). *)
Tick(w) ==
    /\ loop[w] = "idle"
    /\ Registered(w)
    /\ loop' = [loop EXCEPT ![w] = "beating"]
    /\ UNCHANGED <<row, items, redis, inbox, outbox, local, sample, final, save, budget>>

(* _keep_alive. *)
KeepAlive(w) ==
    /\ loop[w] \in {"beating", "ghost"}
    /\ Hold(w)
    /\ loop' = [loop EXCEPT ![w] = IF @ = "beating" THEN "checking" ELSE "idle"]
    /\ UNCHANGED <<row, items, seed, lock, taken, inbox, outbox, local, sample, final,
                   save, budget>>

(* _own_persist. *)
AnyoneOwns(w) == TRUE  \* mutant
OwnsPersist(w) == lock \in {Nobody, w}

(* _persist: own the lock, clear dirty, sample the text. *)
PersistSample(w) ==
    /\ loop[w] = "checking"
    /\ w \in dirty
    /\ OwnsPersist(w)
    /\ lock' = w
    /\ dirty' = dirty \ {w}
    /\ sample' = [sample EXCEPT ![w] = TextOf(doc[w])]
    /\ loop' = [loop EXCEPT ![w] = "writing"]
    /\ UNCHANGED <<row, items, seed, holders, fresh, taken, inbox, outbox, phase, doc,
                   dbText, listening, synced, clients, final, save, budget>>

(* Not dirty, or another worker owns the write. *)
PersistSkip(w) ==
    /\ loop[w] = "checking"
    /\ w \notin dirty \/ ~OwnsPersist(w)
    /\ loop' = [loop EXCEPT ![w] = "idle"]
    /\ UNCHANGED <<row, items, redis, inbox, outbox, local, sample, final, save, budget>>

(* The write is over.  If it raised the room is dirty again -- when that   *)
(* state is still the room's; keystrokes typed meanwhile keep it dirty     *)
(* anyway.                                                                 *)
CleanAfterWrite(w, raised) == dirty \ {w}  \* mutant
ErrorForgotten(w, raised) == dirty  \* mutant
DirtyAfterWrite(w, raised) ==
    IF raised /\ loop[w] = "writing" THEN dirty \cup {w} ELSE dirty

PersistDone(w) ==
    /\ loop[w] \in {"writing", "orphan"}
    /\ loop' = [loop EXCEPT ![w] = "idle"]
    /\ sample' = [sample EXCEPT ![w] = {}]
    /\ UNCHANGED <<items, redis, inbox, outbox, phase, doc, dbText, listening, synced,
                   clients, final, save, typed, opens, leaves, crashes>>

PersistCommit(w) ==
    /\ PersistDone(w)
    /\ sample[w] \notin TooLarge
    /\ row' = sample[w]
    /\ dirty' = DirtyAfterWrite(w, FALSE)
    /\ UNCHANGED fails

(* update_content answers that the note is too large: a warning.  Nobody   *)
(* is left to write this text; only a further edit makes the room dirty.   *)
PersistRefused(w) ==
    /\ PersistDone(w)
    /\ sample[w] \in TooLarge
    /\ UNCHANGED <<row, dirty, fails>>

PersistFail(w) ==
    /\ PersistDone(w)
    /\ fails < MaxFails
    /\ fails' = fails + 1
    /\ dirty' = DirtyAfterWrite(w, TRUE)
    /\ UNCHANGED row

-----------------------------------------------------------------------------
(* Failure and time.                                                       *)

(* The worker process dies; what it had told Redis stays there, and what   *)
(* it had not published yet nobody will: its outbox keeps that on record.  *)
Crash(w) ==
    /\ phase[w] # "dead"
    /\ crashes < MaxCrashes
    /\ crashes' = crashes + 1
    /\ Go(w, "dead")
    /\ doc' = [doc EXCEPT ![w] = EmptyDoc]
    /\ dbText' = [dbText EXCEPT ![w] = {}]
    /\ dirty' = dirty \ {w}
    /\ listening' = listening \ {w}
    /\ synced' = synced \ {w}
    /\ clients' = [clients EXCEPT ![w] = 0]
    /\ inbox' = [inbox EXCEPT ![w] = <<>>]
    /\ loop' = [loop EXCEPT ![w] = "idle"]
    /\ sample' = [sample EXCEPT ![w] = {}]
    /\ final' = [final EXCEPT ![w] = {}]
    /\ UNCHANGED <<row, items, redis, outbox, save, typed, opens, leaves, fails>>

(* A heartbeat leaves LIVE_WINDOW_SECONDS.  The loop of a worker that runs *)
(* renews it in time, so this is one nobody renews any more.               *)
HeartbeatLapses(w) ==
    /\ w \in fresh
    /\ ~Registered(w) /\ phase[w] \notin Closing
    /\ fresh' = fresh \ {w}
    /\ UNCHANGED <<row, items, seed, holders, lock, taken, inbox, outbox, local, writers,
                   save, budget>>

(* SEED_TTL_SECONDS after the last heartbeat of anybody. *)
SeedExpires ==
    /\ seed # NoSeed \/ holders # {}
    /\ fresh = {}
    /\ \A w \in Worker : ~HasRoom(w)
    /\ seed' = NoSeed
    /\ holders' = {}
    /\ UNCHANGED <<row, items, fresh, lock, taken, inbox, outbox, local, writers, save,
                   budget>>

AllPublished(w) == phase[w] = "dead" \/ outbox[w] = {}

(* PERSIST_LOCK_SECONDS without a renewal: the owner died, or had nothing  *)
(* to write for that long.  An owner with something to write renews it,    *)
(* and no message is on its way for so long.                               *)
LockExpires ==
    /\ lock # Nobody
    /\ lock \notin dirty
    /\ loop[lock] # "writing"
    /\ \A w \in Worker : inbox[w] = <<>> /\ AllPublished(w)
    /\ lock' = Nobody
    /\ UNCHANGED <<row, items, seed, holders, fresh, taken, inbox, outbox, local, writers,
                   save, budget>>

-----------------------------------------------------------------------------

Init ==
    /\ row = Body0
    /\ items = <<>>
    /\ seed = NoSeed
    /\ holders = {}
    /\ fresh = {}
    /\ lock = Nobody
    /\ taken = {}
    /\ inbox = [w \in Worker |-> <<>>]
    /\ outbox = [w \in Worker |-> {}]
    /\ phase = [w \in Worker |-> "none"]
    /\ doc = [w \in Worker |-> EmptyDoc]
    /\ dbText = [w \in Worker |-> {}]
    /\ dirty = {}
    /\ listening = {}
    /\ synced = {}
    /\ clients = [w \in Worker |-> 0]
    /\ loop = [w \in Worker |-> "idle"]
    /\ sample = [w \in Worker |-> {}]
    /\ final = [w \in Worker |-> {}]
    /\ save = [s \in Save |-> [pc |-> "idle", at |-> Nobody]]
    /\ typed = {}
    /\ opens = 0
    /\ leaves = 0
    /\ crashes = 0
    /\ fails = 0

Seeding(w) == ReadRow(w) \/ SeedOwn(w) \/ SeedFromDead(w) \/ SeedAdopted(w)

Opening(w) ==
    \/ OpenRoom(w) \/ Seeding(w)
    \/ Subscribe(w) \/ Ask(w) \/ CaughtUp(w) \/ ResetStaleSeed(w) \/ GiveUp(w)

ClientStep(w) == Join(w) \/ Edit(w) \/ Leave(w)

Teardown(w) ==
    \/ FinalSample(w) \/ NothingToWrite(w) \/ FinalCommit(w) \/ FinalRefused(w)
    \/ FinalFail(w) \/ Release(w) \/ Unlock(w)

Receive(w) == ReceiveUpdate(w) \/ ReceiveRequest(w) \/ ReceiveReset(w)

Fanout(w) == Publish(w) \/ Receive(w)

LoopGoesOn(w) ==
    \/ Tick(w) \/ KeepAlive(w) \/ PersistSample(w) \/ PersistSkip(w)
    \/ PersistCommit(w) \/ PersistRefused(w)

PersistLoop(w) == LoopGoesOn(w) \/ PersistFail(w)

Next ==
    \/ \E w \in Worker :
        \/ Opening(w) \/ ClientStep(w) \/ Teardown(w) \/ Fanout(w) \/ PersistLoop(w)
        \/ Crash(w) \/ HeartbeatLapses(w)
    \/ \E s \in Save : SyncRoom(s) \/ \E w \in Worker : CommitSave(s, w)
    \/ SeedExpires
    \/ LockExpires

Spec == Init /\ [][Next]_vars

(* Everybody who held the room before this run of the model began: each    *)
(* worker open and listening on the seed built from the row.               *)
SteadyInit ==
    /\ row = Body0
    /\ items = <<[text |-> Body0, deps |-> {}]>>
    /\ seed = {1}
    /\ holders = Worker
    /\ fresh = Worker
    /\ lock = Nobody
    /\ taken = {}
    /\ inbox = [w \in Worker |-> <<>>]
    /\ outbox = [w \in Worker |-> {}]
    /\ phase = [w \in Worker |-> "open"]
    /\ doc = [w \in Worker |-> [EmptyDoc EXCEPT !.has = {1}]]
    /\ dbText = [w \in Worker |-> Body0]
    /\ dirty = {}
    /\ listening = Worker
    /\ synced = {}
    /\ clients = [w \in Worker |-> 1]
    /\ loop = [w \in Worker |-> "idle"]
    /\ sample = [w \in Worker |-> {}]
    /\ final = [w \in Worker |-> {}]
    /\ save = [s \in Save |-> [pc |-> "idle", at |-> Nobody]]
    /\ typed = {}
    /\ opens = 0
    /\ leaves = 0
    /\ crashes = 0
    /\ fails = 0

-----------------------------------------------------------------------------
(* Types *)

LoopStates == {"idle", "beating", "ghost", "checking", "writing", "orphan"}

(* The room's state is what the code can hold: documents, sets of workers, *)
(* texts made of the note's tokens; no replica and no seed names an item   *)
(* nobody inserted.                                                        *)
TypeOK ==
    /\ row \in Text
    /\ items \in Seq([text : Text, deps : SUBSET Nat])
    /\ seed \in SUBSET Nat
    /\ holders \in SUBSET Worker
    /\ fresh \in SUBSET Worker
    /\ lock \in Worker \cup {Nobody}
    /\ taken \in SUBSET Save
    /\ inbox \in [Worker -> Seq(Messages)]
    /\ outbox \in [Worker -> SUBSET Updates]
    /\ phase \in [Worker -> Phases]
    /\ doc \in [Worker -> Doc]
    /\ dbText \in [Worker -> Text]
    /\ dirty \in SUBSET Worker
    /\ listening \in SUBSET Worker
    /\ synced \in SUBSET Worker
    /\ clients \in [Worker -> Nat]
    /\ loop \in [Worker -> LoopStates]
    /\ sample \in [Worker -> Text]
    /\ final \in [Worker -> Text]
    /\ save \in [Save -> [pc : {"idle"}, at : {Nobody}] \cup
                          [pc : {"committed", "done"}, at : Worker]]
    /\ typed \in SUBSET EditToken
    /\ opens \in Nat
    /\ leaves \in Nat
    /\ crashes \in Nat
    /\ fails \in Nat
    /\ seed = NoSeed \/ seed \subseteq DOMAIN items
    /\ \A w \in Worker : doc[w].has \cup doc[w].wait \subseteq DOMAIN items

-----------------------------------------------------------------------------
(* Safety *)

InUse(w) == phase[w] \in {"asking", "waiting", "open"}

(* No replica shows a piece of text twice: the seed is the same everywhere *)
(* and a save or a stale seed is turned into a CRDT edit once              *)
(* (collab.py:269-276, 458-461).                                           *)
NoDuplicatedText ==
    \A w \in Worker : \A i, j \in Visible(doc[w]) :
        i # j => items[i].text \cap items[j].text = {}

(* Nothing is on its way and every room in use has finished opening.       *)
Quiet ==
    /\ \A w \in Worker :
        phase[w] \in {"none", "open", "dead"} /\ inbox[w] = <<>> /\ AllPublished(w)
    /\ \A w \in Worker : phase[w] = "open" => w \in listening
    /\ \A s \in Save : save[s].pc # "committed"

(* When the messages have been delivered, all workers show the same text   *)
(* (collab.py:8-14, 19-22).                                                *)
Converged ==
    Quiet => \A v, w \in Worker :
        phase[v] = "open" /\ phase[w] = "open" => TextOf(doc[v]) = TextOf(doc[w])

(* The items that died with their worker before they were published, and   *)
(* those typed by somebody who had seen them: the window docs/collab.md    *)
(* names (collab.py:187-191).                                              *)
Unsent(w) == UNION {m.update.has : m \in outbox[w]}
DiedUnsent == UNION {Unsent(w) : w \in {v \in Worker : phase[v] = "dead"}}
Unheard == {i \in DOMAIN items : ({i} \cup items[i].deps) \cap DiedUnsent # {}}

(* ... and no update sits in a pending store, waiting for an item that     *)
(* nobody will send again (collab.py:12-14), unless the item died unsent.  *)
NoStuckUpdates ==
    Quiet => \A w \in Worker : phase[w] = "open" => doc[w].wait \subseteq Unheard

(* One worker per room runs the periodic write (collab.py:23-28): the      *)
(* persist lock excludes a second one until the write is over.             *)
OneWriter ==
    \A v, w \in Worker : loop[v] = "writing" /\ loop[w] = "writing" => v = w

(* A room in use has its seed in Redis, so that whoever opens it on        *)
(* another worker gets the same items (collab.py:61-64, 341-344).          *)
SeedOutlivesRooms ==
    \A w \in Worker : InUse(w) => seed # NoSeed /\ w \in holders

(* No client is left on a room that is being torn down, and no room is     *)
(* torn down under a client (collab.py:146-151).                           *)
ServedClients == \A w \in Worker : clients[w] > 0 => ~(phase[w] \in Closing \cup {"none", "dead"})

(* Every keystroke of a room that stays open is in the row, or somebody is *)
(* bound to write it: a write under way, a dirty worker that shows it, or  *)
(* one to which it, or what it waits for there, is on its way              *)
(* (collab.py:187-188, 420-423, 532, 545).  It is lost where the code says *)
(* so and where it does not: when it, or what it was typed after, died     *)
(* unsent, and when a room that shows it has grown over the limit.         *)
Coming(w) ==
    UNION {inbox[w][k].update.has : k \in {l \in DOMAIN inbox[w] : inbox[w][l].type = "update"}}
OnItsWay(t, w) ==
    \E i \in Coming(w) \cup doc[w].wait :
        t \in items[i].text /\ ({i} \cup items[i].deps) \cap Coming(w) # {}
Pending(t) ==
    \E w \in Worker :
        \/ loop[w] = "writing" /\ t \in sample[w]
        \/ w \in dirty /\ t \in TextOf(doc[w])
        \/ OnItsWay(t, w)
DiedUnheard(t) == \E i \in Unheard : t \in items[i].text
OverTheLimit(t) ==
    \E w \in Worker : phase[w] = "open" /\ t \in TextOf(doc[w]) /\ TextOf(doc[w]) \in TooLarge
SavedOrPending ==
    \A t \in typed : t \in row \/ Pending(t) \/ DiedUnheard(t) \/ OverTheLimit(t)

(* "No lost keystrokes" while a session is live (docs/collab.md:45-46): it *)
(* is not so of a room that has grown over the limit, whose text nobody    *)
(* writes or says so.                                                      *)
NoLostKeystrokes == \A t \in typed : t \in row \/ Pending(t) \/ DiedUnheard(t)

-----------------------------------------------------------------------------
(* A REST save wins (collab.py:29-31, 438-442): when it has been announced *)
(* and everything has settled, the row shows what it saved.                *)
Settled ==
    /\ Quiet
    /\ \A w \in Worker : loop[w] \notin {"writing", "orphan"} /\ w \notin dirty
SaveWins == Settled => \A s \in Save : save[s].pc = "done" => SaveBody[s] \subseteq row

-----------------------------------------------------------------------------
(* Action properties *)

(* A keystroke that reached the row stays there: no write takes back what  *)
(* another write saved (collab.py:23-28), unless its worker wrote it and   *)
(* died before it told the others.                                         *)
RowKeepsEdits == [][\A t \in (row \cap EditToken) \ row' : DiedUnheard(t)]_row

-----------------------------------------------------------------------------
(* Liveness.  Fair: every coroutine that can go on does, the loop ticks,   *)
(* and TTLs run out.  Nothing makes a client type or leave, a worker die   *)
(* or a write fail.                                                        *)

Fairness ==
    /\ \A w \in Worker :
        /\ WF_vars(Seeding(w)) /\ WF_vars(Subscribe(w)) /\ WF_vars(Ask(w))
        /\ WF_vars(CaughtUp(w)) /\ WF_vars(ResetStaleSeed(w)) /\ WF_vars(GiveUp(w))
        /\ WF_vars(Teardown(w)) /\ WF_vars(Publish(w)) /\ WF_vars(Receive(w))
        /\ WF_vars(LoopGoesOn(w)) /\ WF_vars(HeartbeatLapses(w))
    /\ WF_vars(LockExpires)

(* While somebody keeps the note open, a keystroke reaches the row, though *)
(* the worker that took it or the one that owns the write may die, and a   *)
(* write may fail (collab.py:498-502, 513-516, 545) -- with the two ways   *)
(* to lose it that SavedOrPending names.                                   *)
EditsAreSaved ==
    \A t \in EditToken : t \in typed ~> t \in row \/ DiedUnheard(t) \/ OverTheLimit(t)

(* Whoever opens a room is served: the catch-up ends whatever became of    *)
(* the worker it asks (collab.py:262-304).                                 *)
JoinersAreServed ==
    \A w \in Worker : phase[w] = "reading" ~> phase[w] \in {"open", "dead"}
=============================================================================
