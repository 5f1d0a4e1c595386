---------------------------- MODULE AssistantChat ----------------------------
(***************************************************************************)
(* The assistant: the chat panel of each browser                           *)
(* (web/src/components/workspace/ai-chat-pane.tsx), the turn it streams    *)
(* from (lib/api/endpoints.ts, client.ts) and the stored threads the       *)
(* server appends to (back/app/services/ai_service.py), in one vault.      *)
(*                                                                         *)
(* A turn is known by its number.  A message is a turn's question or its   *)
(* reply, and the reply carries the note that the turn's tools wrote, if   *)
(* they did.  The words of a reply while it streams are left out.          *)
(***************************************************************************)
EXTENDS Naturals, Sequences, FiniteSets, SequencesExt, Picks

CONSTANTS
    Panel, Thread, Question,
    None,
    Breaks,      \* can the stream break, and a panel be closed, mid-turn?
    MaxTurns     \* bound: questions that are sent

ASSUME MaxTurnsAssumption == MaxTurns \in Nat
ASSUME NoneIsNoThread == None \notin Thread

VARIABLES
    threads,  \* the stored messages of each thread, or None
    recent,   \* the threads that are stored, the most recently used first
    notes,    \* the turns whose tools wrote a note in the vault
    turns,    \* the turns so far: [panel, ask, thread, stage, wrote]
    panel     \* each panel's selection, list, cache, pending, draft, the turn it
              \* is sending, the threads that are stale in its cache, those whose
              \* arrival clears pending, and the one it is removing

vars == <<threads, recent, notes, turns, panel>>

Message == [role : {"user", "assistant"}, turn : Nat, wrote : BOOLEAN]
ASSUME NoneIsNoTranscript == None \notin Seq(Message)

Turn == 1..Len(turns)
Ask(k) == [role |-> "user", turn |-> k, wrote |-> FALSE]
Reply(k) == [role |-> "assistant", turn |-> k, wrote |-> turns[k].wrote]

Fresh == [selection |-> "auto", list |-> <<>>, cache |-> [c \in Thread |-> None],
          pending |-> <<>>, draft |-> None, sending |-> 0,
          stale |-> {}, wiping |-> {}, removing |-> None]

(* The thread a panel shows: picked, none in a new chat, else the first of *)
(* the list as the panel knows it.                                         *)
Shown(s) ==
    CASE s.selection = "new" -> None
      [] s.selection = "auto" -> IF s.list = <<>> THEN None ELSE s.list[1]
      [] OTHER -> s.selection

Stored(s) == IF Shown(s) = None \/ s.cache[Shown(s)] = None THEN <<>> ELSE s.cache[Shown(s)]
Messages(s) == Stored(s) \o s.pending

Without(c) == Picked(recent, {i \in DOMAIN recent : recent[i] # c})

Set(p, s) == panel' = [panel EXCEPT ![p] = s]
Stage(k, stage) == turns' = [turns EXCEPT ![k].stage = stage]

(* ------------------------------- the server ---------------------------- *)

(* A tool of the running turn writes a note, and commits.                  *)
RunTool(k) ==
    /\ turns[k].stage = "running" /\ ~turns[k].wrote
    /\ turns' = [turns EXCEPT ![k].wrote = TRUE]
    /\ notes' = notes \cup {k}
    /\ UNCHANGED <<threads, recent, panel>>

(* Mutant: the question is stored before the provider is asked.            *)
FailTurnHalfway(k) ==
    /\ turns[k].stage = "running" /\ turns[k].thread # None /\ threads[turns[k].thread] # None
    /\ Stage(k, "failed")
    /\ threads' = [threads EXCEPT ![turns[k].thread] = Append(@, Ask(k))]
    /\ UNCHANGED <<recent, notes, panel>>

(* The provider fails, or the thread was deleted while the turn ran: the   *)
(* transaction is rolled back and the panel is told.                       *)
FailTurn(k) ==
    /\ turns[k].stage = "running"
    /\ Stage(k, "failed")
    /\ UNCHANGED <<threads, recent, notes, panel>>

(* Mutant: the thread is listed as a new one.                              *)
StoreTurnUnmoved(k, c) ==
    /\ turns[k].stage = "running" /\ turns[k].thread \in {None, c} /\ (threads[c] = None <=> turns[k].thread = None)
    /\ turns' = [turns EXCEPT ![k].stage = "stored", ![k].thread = c]
    /\ threads' = [threads EXCEPT ![c] = (IF @ = None THEN <<>> ELSE @) \o <<Ask(k), Reply(k)>>]
    /\ recent' = <<c>> \o recent
    /\ UNCHANGED <<notes, panel>>

(* The turn succeeds: both messages, and a new thread if it has none, in   *)
(* one commit, and the thread moves to the front.  (Two turns that overlap *)
(* in one thread are listed in the order they began; here in the order     *)
(* they end, which nothing below tells apart.)                             *)
StoreTurn(k, c) ==
    /\ turns[k].stage = "running"
    /\ IF turns[k].thread = None THEN threads[c] = None /\ \A j \in Turn : turns[j].thread # c
       ELSE c = turns[k].thread /\ threads[c] # None
    /\ turns' = [turns EXCEPT ![k].stage = "stored", ![k].thread = c]
    /\ threads' = [threads EXCEPT ![c] = (IF @ = None THEN <<>> ELSE @) \o <<Ask(k), Reply(k)>>]
    /\ recent' = <<c>> \o Without(c)
    /\ UNCHANGED <<notes, panel>>

(* The same person on another device, through the same requests.           *)
AskElsewhere(c) ==
    /\ Len(turns) < MaxTurns /\ threads[c] # None
    /\ turns' = Append(turns, [panel |-> None, ask |-> None, thread |-> c, stage |-> "running", wrote |-> FALSE])
    /\ UNCHANGED <<threads, recent, notes, panel>>

DeleteElsewhere(c) ==
    /\ threads[c] # None
    /\ threads' = [threads EXCEPT ![c] = None]
    /\ recent' = Without(c)
    /\ UNCHANGED <<notes, turns, panel>>

(* -------------------------------- a panel ------------------------------ *)

Write(p, q) ==
    /\ panel[p].draft # q /\ Set(p, [panel[p] EXCEPT !.draft = q])
    /\ UNCHANGED <<threads, recent, notes, turns>>

(* Enter.  The server refuses a thread that it does not have.              *)
Send(p) ==
    LET s == panel[p]
        k == Len(turns) + 1
        c == Shown(s)
        stage == IF c # None /\ threads[c] = None THEN "failed" ELSE "running"
    IN  /\ s.draft # None /\ s.sending = 0 /\ k <= MaxTurns
        /\ turns' = Append(turns, [panel |-> p, ask |-> s.draft, thread |-> c, stage |-> stage, wrote |-> FALSE])
        /\ Set(p, [s EXCEPT !.pending = Append(@, Ask(k)), !.draft = None, !.sending = k])
        /\ UNCHANGED <<threads, recent, notes>>

(* Mutant: the thread is not fetched again after its turn.                 *)
SucceedUnfetched(p) ==
    LET s == panel[p]
        k == s.sending
    IN  /\ k # 0 /\ turns[k].stage = "stored"
        /\ Stage(k, "answered")
        /\ Set(p, [s EXCEPT !.pending = <<>>, !.selection = turns[k].thread, !.sending = 0])
        /\ UNCHANGED <<threads, recent, notes>>

(* The done event: the panel goes to the turn's thread and asks for it     *)
(* anew.  If that is the one on screen, the reply joins the question there *)
(* until it arrives; no query for another thread is active yet, so there   *)
(* is nothing to wait for and the local copy goes at once.                 *)
Succeed(p) ==
    LET s == panel[p]
        k == s.sending
        c == turns[k].thread
        onScreen == Shown(s) = c
    IN  /\ k # 0 /\ turns[k].stage = "stored"
        /\ Stage(k, "answered")
        /\ Set(p, [s EXCEPT !.pending = IF onScreen THEN Append(@, Reply(k)) ELSE <<>>,
                            !.wiping = IF onScreen THEN @ \cup {c} ELSE @,
                            !.selection = c, !.sending = 0, !.stale = @ \cup {c}])
        /\ UNCHANGED <<threads, recent, notes>>

(* The error event, or a stream that ended without one: the question goes  *)
(* back into the box, over whatever has been written there since.          *)
HandBack(p) ==
    LET s == panel[p]
        k == s.sending
    IN  /\ k # 0 /\ turns[k].stage \in {"failed", "broken"}
        /\ Set(p, [s EXCEPT !.draft = turns[k].ask, !.sending = 0,
                            !.pending = Picked(@, {i \in DOMAIN s.pending :
                                                   \/ s.pending[i].role # "user"
                                                   \/ turns[s.pending[i].turn].ask # turns[k].ask})])
        /\ UNCHANGED <<threads, recent, notes, turns>>

(* The stream breaks after the server has stored the turn.                 *)
BreakStream(k) ==
    /\ Breaks /\ turns[k].stage = "stored" /\ \E p \in Panel : panel[p].sending = k
    /\ Stage(k, "broken")
    /\ UNCHANGED <<threads, recent, notes, panel>>

Fetched(s, c) ==
    [s EXCEPT !.cache[c] = IF threads[c] = None THEN @ ELSE threads[c], !.stale = @ \ {c}]

(* The thread of a turn that succeeded arrives, and the local copy goes -  *)
(* with whatever has been sent since.                                      *)
CatchUp(p, c) ==
    /\ c \in panel[p].wiping
    /\ Set(p, [Fetched(panel[p], c) EXCEPT !.wiping = @ \ {c}, !.pending = <<>>])
    /\ UNCHANGED <<threads, recent, notes, turns>>

(* The queries load what the panel shows, or load it again.                *)
LoadList(p) ==
    /\ Set(p, [panel[p] EXCEPT !.list = recent])
    /\ UNCHANGED <<threads, recent, notes, turns>>

LoadThread(p) ==
    LET c == Shown(panel[p])
    IN  /\ c # None /\ c \notin panel[p].wiping
        /\ Set(p, Fetched(panel[p], c))
        /\ UNCHANGED <<threads, recent, notes, turns>>

Pick(p, c) ==
    /\ Contains(panel[p].list, c)
    /\ Set(p, [panel[p] EXCEPT !.selection = c, !.pending = <<>>])
    /\ UNCHANGED <<threads, recent, notes, turns>>

StartNewChat(p) ==
    /\ Set(p, [panel[p] EXCEPT !.selection = "new", !.pending = <<>>])
    /\ UNCHANGED <<threads, recent, notes, turns>>

DeleteThread(p, c) ==
    /\ Contains(panel[p].list, c) /\ panel[p].removing = None
    /\ threads' = [threads EXCEPT ![c] = None]
    /\ recent' = Without(c)
    /\ Set(p, [panel[p] EXCEPT !.removing = c])
    /\ UNCHANGED <<notes, turns>>

(* The answer to the deletion: if the thread is the one that shows by now, *)
(* the panel falls back to the most recent one.                            *)
Deleted(p) ==
    LET s == panel[p]
    IN  /\ s.removing # None
        /\ IF Shown(s) = s.removing
           THEN Set(p, [s EXCEPT !.removing = None, !.selection = "auto", !.pending = <<>>])
           ELSE Set(p, [s EXCEPT !.removing = None])
        /\ UNCHANGED <<threads, recent, notes, turns>>

(* The panel is closed and opened again: its state is gone, a turn goes on *)
(* by itself, and what was fetched is kept for the next panel.             *)
Reopen(p) ==
    /\ Breaks
    /\ Set(p, [Fresh EXCEPT !.list = panel[p].list, !.cache = panel[p].cache, !.stale = panel[p].stale])
    /\ UNCHANGED <<threads, recent, notes, turns>>

Init ==
    /\ threads = [c \in Thread |-> None] /\ recent = <<>> /\ notes = {} /\ turns = <<>>
    /\ panel = [p \in Panel |-> Fresh]

InPanel(p) ==
    \/ Send(p) \/ Succeed(p) \/ HandBack(p) \/ LoadList(p) \/ LoadThread(p) \/ StartNewChat(p) \/ Deleted(p) \/ Reopen(p)
    \/ \E q \in Question : Write(p, q)
    \/ \E c \in Thread : CatchUp(p, c) \/ Pick(p, c) \/ DeleteThread(p, c)

OnServer(k) == RunTool(k) \/ FailTurn(k) \/ BreakStream(k) \/ \E c \in Thread : StoreTurn(k, c)

Next ==
    \/ \E p \in Panel : InPanel(p)
    \/ \E k \in Turn : OnServer(k)
    \/ \E c \in Thread : AskElsewhere(c) \/ DeleteElsewhere(c)

Spec == Init /\ [][Next]_vars

(* ------------------------------ properties ----------------------------- *)

(* The history list names every stored thread once (list_conversations) -  *)
(* and every variable has its type.                                        *)
TypeOK ==
    /\ ToSet(recent) = {c \in Thread : threads[c] # None}
    /\ Cardinality(ToSet(recent)) = Len(recent)
    /\ notes \subseteq Turn /\ Len(turns) <= MaxTurns
    /\ \A k \in Turn : turns[k].stage \in {"running", "failed", "stored", "broken", "answered"}
    /\ \A p \in Panel :
        LET s == panel[p] IN
        /\ s.selection \in Thread \cup {"auto", "new"} /\ s.draft \in Question \cup {None}
        /\ s.sending \in Turn \cup {0} /\ s.stale \subseteq Thread /\ s.wiping \subseteq s.stale
        /\ s.removing \in Thread \cup {None}

(* A stored thread is a sequence of whole turns, each stored once and only *)
(* in the thread it was asked in, whatever the panels, retries, deletions  *)
(* and failures; a turn that failed has left nothing behind, so that "a    *)
(* retry starts from the same history".                                    *)
WholeTurns ==
    \A c \in Thread : threads[c] # None =>
        LET msgs == threads[c]
            n == Len(msgs) \div 2
            at(i) == msgs[2 * i - 1].turn
        IN  /\ Len(msgs) = 2 * n /\ n > 0
            /\ \A i \in 1..n : /\ msgs[2 * i - 1] = Ask(at(i)) /\ msgs[2 * i] = Reply(at(i))
                               /\ turns[at(i)].thread = c /\ turns[at(i)].stage \notin {"running", "failed"}
            /\ \A i, j \in 1..n : at(i) = at(j) => i = j

(* A panel that waits for nothing shows its thread as it is stored: every  *)
(* turn it was answered there, and none of them twice ("once the stored    *)
(* transcript includes this turn, the local copy would double it").        *)
AtRest ==
    \A p \in Panel :
        LET s == panel[p]
            c == Shown(s)
            shown == Messages(s)
        IN  c # None /\ threads[c] # None /\ s.sending = 0 /\ c \notin s.stale /\ s.wiping = {} =>
                /\ Cardinality(ToSet(shown)) = Len(shown)
                /\ \A k \in Turn : turns[k].stage = "answered" /\ turns[k].panel = p /\ turns[k].thread = c
                      => s.cache[c] = None \/ {Ask(k), Reply(k)} \subseteq ToSet(shown)

(* "Every vault change is shown, never silent - and it is stored with the  *)
(* message": a turn that wrote a note ends with a reply that says so.       *)
ChangesShown == \A k \in notes : turns[k].stage # "failed"
=============================================================================
