# nodum in TLA+

TLA+ models of nodum, the note-taking service in this repository, the TLC configurations that check them on
small instances, and TLAPS proofs of the properties that matter most for every size of instance. Source
paths below are relative to the repository (`back/app/...` is the API, `web/src/...` the web client).

Contents: [the system](#1-the-system), [plan](#2-plan), [the modules](#3-the-modules), [runs](#4-runs),
[proofs](#5-proofs), [known divergences](#6-where-the-code-and-its-documentation-differ),
[limits](#7-what-is-not-modelled), [how to run](#8-running-it).

## 1. The system

Several uvicorn workers run one FastAPI application. They share PostgreSQL (all durable state) and Redis
(pub/sub, leases, caches, revocation marks). Celery workers run periodic jobs on the same database. The
Next.js client keeps an access token in memory, a refresh token in an httpOnly cookie shared by the tabs of
a browser, and an editor per open pane. Nothing above the database is transactional across stores, so the
interesting states lie between two awaits.

| Component | State it keeps | Operations | Interacts with | What is hard | What makes it correct |
|---|---|---|---|---|---|
| Live rooms (`core/collab.py`, `api/v1/collab.py`) | per worker: the CRDT replica, dirty, subscribed and synced flags, clients; in Redis: seed, holders, persist lock, reset lock | join, leave, type, seed, catch up, fan out, reset, persist, tear down | every worker through pub/sub; the note row through `update_content` | two openers at once, a dead holder's seed, late answers, updates integrated but not yet published, writes sampled before a save or refused | replicas converge, no text twice or stuck, one writer, keystrokes reach the row |
| Sign-in sessions (`auth_service.py`, `account_service.py`, `dependencies/auth.py`, `client.ts`, `auth-store.ts`) | session rows with a rotating JTI; grace, revocation keys; cookies; tabs | login, refresh, logout, change or reset of the password | two stores that are not committed together; tabs racing on a cookie | racing tabs, answers out of order, a reload, a commit that fails | an honest user is never taken for a thief, an ended session is over |
| Note saving and history (`note_service.py`, `version_service.py`, `link_service.py`, `editor-pane.tsx`) | the note row, its versions; per editor: draft, saved text, base timestamp, timer, retries | autosave, conflict, resubmit, adopt, append, link, rename, restore | row locks; editors and API callers | stale bases, commits between a save and its answer, instances loaded before the lock, answers while typing | a base that came with its text overwrites nothing unseen, appends land, restores can be undone, keystrokes are kept |
| Sync engine (`provider_sync_service.py`, `tasks/provider_sync.py`) | stream position and lease, mapping rows, connection status | claim, fetch a page, apply a record, move the cursor, release, settle, pause, resume | Celery, providers, `create_note`, `transform_content`, the person's hand in the notes | a death between note and mapping, stale loads, redelivery, a pause during a run | every record catches up, no note twice, a person's words and decisions stand |
| Workspace (`workspace-store.ts`) | per window: panes, tabs, histories; one localStorage record for all windows | open, close, pin, drag, split, back, forward, change vault | every window of the browser | two writers of one record, histories pointing past the tab shown | a vault's layout is its own, Back and Forward are inverse |
| Editable tables (`table-model.ts`, `table-commands.ts`, `table-widget.ts`) | per cell: source last seen, text shown, raw or rendered; focus, composition | type, compose, paste, structural commands, reconcile | the document, peers, CodeMirror's reuse of nodes | a peer's change under the caret, a rebuilt grid, compositions, rows that the parser skips | the screen follows the document, keystrokes land on what is there |
| Assistant chat (`ai-chat-pane.tsx`, `ai_service.py`) | stored threads; per panel: selection, caches, local copies, draft | ask, retry, pick, delete, reopen | a stream that may break, the tools' writes | answers and refetches in any order, turns that fail after a write | threads hold whole turns once, a panel at rest shows them |
| Tree of a vault (`folder_service.py`, `note_service.py`, `path_utils.py`) | folder and note rows with materialized paths | create, rename, move, delete | cascades, the links drawn from texts, both caches | paths rewritten by prefix, requests checked before they commit | a path is that of its place in the tree |
| Link graph (`link_service.py`) | Link and NoteAlias rows derived from texts | save, create, rename, move, delete, change aliases, link, unlink | all note writes | piecemeal claims and releases; creation of a target racing the save of its source | the rows are those that saving every note again would write |
| Tree and graph caches (`cache_utils.py`, `vault_service.py`, `link_service.py`) | two Redis keys per vault | fill on read, delete after commit | every write to a vault | a view that an operation forgets; a fill that read before the commit lands after the delete | no operation forgets a view in which it changes a folder, a note, a path or a link |
| Email codes (`email_verification_service.py`) | one pending code per user and purpose | issue, check | sign-up, reset, deletion | concurrent checks and re-issue | attempts are bounded, a replaced code is dead |
| API tokens (`api_token_service.py`) | token rows | mint, list, revoke, verify | public API, MCP | concurrent minting at the cap | at most ten live tokens |
| Everything else | see `PROJECT.json`, "components" | | | single-statement or single-request work, rendering, input and output | |

`PROJECT.json` lists all components, the forty weightiest hazards of the code at their lines with the properties that
watch them (section 6 has more), and the source lines every definition stands for.

## 2. Plan

Written, in this order: CollabRoom, AuthSessions, NoteSave, ProviderSync with its abstract specification RecordMirror,
TableWidget, WorkspaceStore, AssistantChat, VaultTree. Each but RecordMirror, which is checked through ProviderSync,
has an MC module and runs, and each of the eight a proof module. Picks is the filter of lists that three of them share.

Next, in order of what can go wrong unnoticed:

1. **CollabRoom, proofs**: convergence through openings and resets, beyond the steady room.
2. **VaultTree, overlapping link writes**: a save and the creation of its target as transactions that do not see each
   other; the property is which notes a later save must put right.
3. **A refinement for NoteSave**: an abstract note (a register with compare-and-set and append) that the
   editor-and-lock model implements under the documented base check.
4. **LiveNote**, composing CollabRoom's reset with NoteSave's restore: restores do not reach live rooms today.
5. **EmailCode, ApiTokens**: small modules.

Runs are kept to twelve, each answering one question. The configurations that show a divergence are not among
them and stay beside the modules (section 6).

## 3. The modules

### CollabRoom

One note, any set of workers. `CollabRoom.tla` follows `core/collab.py` coroutine by coroutine. An action is
what runs between two awaits at which somebody else can notice a difference.

State: `row` is `Note.content`; `seed`, `holders`, `fresh`, `lock`, `taken` are the Redis keys
(`collab-seed`, `collab-holders` and the scores inside the live window, `collab-persist`,
`collab-resetlock`); `outbox[w]` is the updates whose `_publish` task has not run yet and `inbox[w]` what Redis has accepted
for a subscriber; `doc`, `dirty`, `listening`,
`synced`, `clients`, `dbText` are the worker's room and `_State`; `loop`, `sample`, `final` are the two
writers. `phase[w]` is where `get_room`, `_init_room` or `delete_room` is.

| Code | Actions |
|---|---|
| `get_room`, `_init_room` | OpenRoom, ReadRow, Join |
| `_seed`, acquire script | SeedOwn, SeedFromDead, SeedAdopted |
| `_catch_up`, `_live_others` | Ask, CaughtUp, ResetStaleSeed, GiveUp |
| `_subscribe`, `_answer_sync` | Subscribe, ReceiveUpdate, ReceiveRequest, ReceiveReset |
| a client's message, `on_update` | Edit (integrates, marks the room dirty, starts the task that publishes) |
| `_publish` | Publish, in any order among the tasks of a worker |
| `sync_room`, `_maybe_apply_reset`, `_reset_local` | CommitSave, SyncRoom, ReceiveReset |
| `_persist_loop`, `_keep_alive`, `_own_persist`, `_persist` | Tick, KeepAlive, PersistSample, PersistSkip, PersistCommit, PersistRefused (`success=False`), PersistFail |
| `delete_room`, `_release_holder`, `_drop_persist_lock` | Leave, FinalSample, NothingToWrite, FinalCommit, FinalRefused, FinalFail, Release, Unlock |
| the process and the TTLs | Crash, HeartbeatLapses, SeedExpires, LockExpires |

Data: a text is the set of tokens it shows. A CRDT item is one insertion with the set of items its author had
seen; a replica integrates an item once it has those, and keeps it waiting until then, as the Yjs pending store does.
That is enough to see the three things that go wrong with CRDTs here: text twice, text stuck, replicas apart. `TooLarge` is the
set of texts over `MAX_NOTE_SIZE_BYTES`, closed upwards (`MoreIsLarger`).

Two ways to lose a keystroke are in the model and named in the properties. `DiedUnheard`: the worker died after it had integrated an
update and before its task published it (`collab.py:187-191`, the loss `docs/collab.md:53-58` admits), or the keystroke was
typed after such a one. `OverTheLimit`: a room that shows it has grown too large, so that `_persist` gets
`success=False`, logs, and leaves the room clean (`collab.py:542-543`). The second is against `docs/collab.md:45-46`, and collab_too_large
makes TLC show it.

Assumptions, each named in the module:

- Redis is up, and delivers to a subscriber in the order of publication.
- Taking the seed and applying it is one step; a holder answers a request that it has read.
- The heartbeat of a live worker is in time (one beat every 3 s, 12 s of life). The persist lock expires only
  when its owner is dead or has nothing to write and nothing is on its way: a write takes less than its 15 s.
- `GiveUp` happens to those who ask the dead: a live worker answers or leaves within the 8 s of a catch-up.
- `Prompt`: nobody types before every open room is subscribed; nobody leaves while a request is unanswered or before what was
  typed at their worker is published, and a teardown releases the room after that. A worker may still die with updates unpublished.
  `EarlyJoin = FALSE`: the second client comes when the room has opened. Both are constants; what
  the code does without them is in section 6.
- An edit depends on everything its author's replica has. The reset lock does not expire within a run.

### AuthSessions

One account, any number of browsers, tabs, session rows and requests. A request is sent with the
cookie of that moment, handled in steps between awaits, answered, and its answer arrives in any order.

State: `sessions`, `lock` (the row lock), `issued` (JTIs are numbered as minted), `grace`, `lapsed`,
`revokedSid`, `revokedAt` (the Redis keys), `cookie`, `tab`, `req`, `clock` in seconds.

| Code | Actions |
|---|---|
| `auth_service.refresh` | LookUp, AskGrace, Converge, PublishGrace, CommitRotation, FailRotation, RaiseAlarm |
| `auth_service.login`, `mint_session` | Login |
| `auth_service.logout` | LogoutFind, LogoutCommit, LogoutMark |
| `auth_service.change_password` | ChangeFind, ChangeCommit, ChangeMark |
| `account_service.reset_password`, `revoke_existing_sessions` | ResetFind, ResetMark, ResetCommit, ResetMint |
| `client.ts`, `auth-store.ts` | SendRefresh, SendFromForm, SendFromSettings, Reload, RefreshWithoutCookie, SignedIn, Expired, LoggedOut, Changed, Dropped |
| time | Tick, GraceLapses |

`validate_access_token` is the operator `Accepts`, in whole seconds as the code compares.

Assumptions: Redis is up (the code fails open without it); tabs send the cookie they have; a token is minted
in the second in which the transaction before it committed; the 30 s of grace outlive a request and a
reload; `Overtaking = FALSE`: a browser does not refresh again while an answer to an older cookie is on its
way. Session expiry after 30 days and disabled accounts are left out.

### NoteSave

One note outside a live room. Editors type, autosave after a debounce, meet 409s, resubmit, adopt texts
from outside, restore and rename; other callers append or link. A request is a `Job` that reads, takes the row
with FOR UPDATE, writes, commits, refreshes and answers.

State: `row` with `updated_at` as a `stamp`, `versions`, `young` (is the newest version inside the snapshot
interval), `lock`, `job`, and per editor `draft`, `saved`, `base`, `timer`, `retries` (the refs of
`EditorBody`). Three variables are history: `came` says how a base came to its editor, with its text (`text`), alone with a 409
(`conflict`), or in the answer to a save that another writer had overtaken (`overtaken`); `presumed` is the marks that an answer
counted as saved although its save had not carried them; `stored` is what was ever in the row.

| Code | Actions |
|---|---|
| `editor-pane.tsx` onChange, debounce, unmount | Type, Fire, Close |
| save `onSuccess`, `onError` | SaveSucceeded, Resubmit, GiveWay, SaveRefused |
| external adoption, `onRestored`, rename | Adopt, Restored, Renamed |
| `update_content`, `restore_version`, `get_note` | Read, Take, Refuse (409), Reject (too large), Write (up to the commit, which frees the row), Refresh |
| `maybe_snapshot`, `_prune` | Snapshot and Pruned inside Write; SnapshotAges |
| other callers, the network | Call, Lose |

Data: a text is the set of marks it holds, and editors only add marks, so a text without a mark was written
without having seen it, and a lost mark is a lost keystroke.

Assumptions: `updated_at` values differ and are compared for equality, as in the code; editors are in
different browser tabs. People type while their saves are under way, and others commit between a save's commit and the
`db.refresh` that builds its answer, in every run and in the proofs. What the code loses then is in the properties as an exception
that the state names: `presumed` in KeystrokesKept and KeystrokesStored, `came = "text"` in NoSilentOverwrite. The statements without
those exceptions, which the comments make, are NoKeystrokesClobbered and OnlyConflictsOverwrite; section 6 has the configurations that
violate them.

### ProviderSync and RecordMirror

One connection with one stream, any number of workers and records. `ProviderSync.tla` cuts the engine at its
commits, which are where two workers and the person meet.

State: `log` is the provider's history (a version is a position in it, a cursor or a page token too); `notes[r]` are
the notes ever made for a record, with what they show, how often a person wrote in them, whether the marker that
separates the synced half from the person's is there; `mapping` the `external_objects` rows; `stream` the cursor,
page token, resync flag and lease; `status`; `run[w]` what a run loaded and where it stands.

| Code | Actions |
|---|---|
| `run_due`, `run_one`, `ensure_streams` | Sweep, Begin |
| `claim_stream`, `release_stream` | Claim, Release, Expire |
| `run_stream` | Open, Fetch, CommitPage |
| `apply_record`, `_record_mapping` | Look, Rewrite, Create, RecordMapping |
| `sync_connection`'s handlers, `_record_failure`, `_paused_meanwhile` | Refused, Invalidate, Check, Settle |
| `pause`, `resume`, `delete_note`, the editor | Pause, Resume, DeleteNote, EditNote |
| the provider, and death | ChangeRecord, Crash, Orphaned |

`RecordMirror.tla` is what the engine promises of one record, without workers, pages or leases: its note only moves
to newer versions, a person's words in it are never changed, deleted stays deleted, taken over stays taken over,
and it catches up while the connection is scheduled. `Mirror(r)` in ProviderSync is its instance for record `r`, with
the refinement mapping from the row and its note; `MirroredSafely` says that every step is one of RecordMirror's or a stutter,
`CatchesUp` is its liveness. Together they are `\A r \in Record : Mirror(r)!Spec`, written without the quantifier
over temporal formulas that TLC does not take.

Assumptions: `Overrun = FALSE`, a run does not outlast its lease (a task is killed after 300 s,
`core/celery.py:27`, a lease lasts 600 s and is renewed with each page). Creating a note succeeds. A provider sends the
newest version of every record changed since a position, in pages that end where it likes. Giving a note or a connection
back is free, everything else a person does and every failure is counted by `MaxEvents`.

### WorkspaceStore

All windows of one browser. `store[w]` is the zustand store of a window, `stored` the localStorage record, `url[w]` the
vault in the address, `asked[w]` a note whose opening waits for an answer. The pane helpers (`ShownAt`,
`SyncedHistory`, `OpenedTabs`, `Recorded`, `SortPinned`) are translated one by one; every operation ends in `Keep`,
since zustand's persist writes the record on every `set`. `Load` is a page load (`getItem`, `merge`), `MoveTo` and
`SetActiveVault` a change of vault without one, `Touch` any setter of what is left out.

Assumptions: `Overtaken = FALSE`, a window does not change vault while an answer that will open a note is on its way.
Storage is never full. `MaxHistory` is 50 in the code. A layout that a build before the per-vault layouts left (`Legacy`) belongs to
the vault that was active then and is as `OldLayout` says: in order, except for what `merge` repairs, tabs that are there twice
and a cursor past the end of a history.

### TableWidget

The tables of one open note in one browser. `doc` is the tables of the document, cells as trimmed source; `dom`
what each widget shows, a cell with the source it last saw (`dataset.src`), its text and whether it is raw; `focus`,
`composing`, `ime` the focused cell and the composition in it. An action is one DOM event or one transaction with the
update of the widgets that follows it: CodeMirror updates them synchronously.

| Code | Actions |
|---|---|
| `wire` (mousedown, focusin, focusout, keydown) | Focus |
| input, composition, `commit` | Type, Erase, CompositionStart, CompositionEnd |
| `table-commands.ts`, `runControl`, the context menu | RunControl, RunMenu |
| `pasteInto` | PasteInto |
| `updateDOM`, `reconcile`, `toDOM` after a change from elsewhere | PeerCell, PeerRow, PeerCommand, PeerInsertsTable, PeerRemovesTable |

A text is a sequence of glyphs: marks, a pipe, an escaped pipe, a space. CodeMirror knows a table by its ordinal, so a table
that appears or goes hands nodes over; which cached nodes it still has is left open (`PeerTable`). Every reader of a table skips a line
whose every cell looks like a delimiter (`isDivider`), wherever it stands: `doc` holds the rows that are read (`Parsed`), so a row goes when a key,
a paste or a peer makes it look so, focus in it goes too, and a peer or an undo that changes the line brings it back (`PeerRow`). A table
may lose all its rows that way. A new column is headed `Heading`, "New column".
Assumptions: keys append at the end of a cell; `EndHeard = TRUE`: a widget hears the end of a composition in a
cell that was rebuilt (without it `composing` stays set, section 6). `TableAssumption` names what the alphabet and the first
document are: the pipe, its escaped form and the space are apart from the marks, of which the dash and the colon are two, a table has as many cells in each
row and none that the parser would skip (`splitCells` trims them; tables with ragged rows, which are rewritten by the first command, are left out). A peer takes the last glyph
of a cell away and what is left is trimmed, as the parse would.

### AssistantChat

One person, one vault: the panels of their browsers, the threads on the server, another device. A turn is numbered
when it is sent and runs to stored or failed; a panel has a selection, the list and threads in its query cache,
the local copies of what it sent (`pending`), a draft, and the answers and refetches it waits for.

| Code | Actions |
|---|---|
| `ai-chat-pane.tsx` send, success, error | Write, Send, Succeed, CatchUp, HandBack |
| queries, history menu, removal, mounting | LoadList, LoadThread, Pick, StartNewChat, DeleteThread, Deleted, Reopen |
| `chat_with_vault_events` | RunTool, FailTurn, StoreTurn |
| `apiStream` | BreakStream |
| the same requests from another device | AskElsewhere, DeleteElsewhere |

Data: the words of a reply are left out, and a turn writes at most one note. A thread lists turns in the order they
are stored; the server lists two that overlap in the order they began.

### VaultTree

One vault: its folders and notes, the links drawn from the texts, and the two cached views of them. A folder or note row
has `home` (`parent_id`, `folder_id`), `name` and the materialized `path`, a sequence of names; a note has also the links
(`refs`) and aliases of its text. A link row has the form it was written with (`key`, in the code `target_title`) and a target
or none (a ghost). `req[r]` is a request: None, what it has checked and will commit (`folder`, `note`), or the views it
has yet to drop. `cached[v]` says whether what Redis holds of a view agrees with the rows (`right`), in all but
modification times (`dated`, of the tree only) or not (`wrong`); `fill[v]` says the same of what a reader holds.

| Code | Actions |
|---|---|
| `folder_service.py` create, rename, move, delete | CreateFolder, RenameFolder, MoveFolder, CommitFolder (with `Recomputed`, `RecomputedLinks` for `_recompute_subtree_paths`), DeleteFolder |
| `note_service.py` create, rename, save, delete; `version_service.py` restore | CreateNote, RenameNote, CommitNote, UpdateContent, DeleteNote |
| `link_service.py` | SyncNoteLinks, SyncNoteAliases, Claim, Release inside the above; LinkNotes, UnlinkNotes; `Resolved` is `_resolve_targets` |
| `get_tree`, `get_graph`, `cache_set_json`, `cache_delete`, the TTLs | StartFill, ReadRest, StoreFill, DropViews, Expire |
| the foreign keys and unique constraints | Subtree, Unlinked, Sound, Fails |

Only changed columns are written (`Merged`), as SQLAlchemy does, so a request that checked old rows can commit over newer ones. A
request that would violate a constraint fails as a whole.

Assumptions: `Overlap = FALSE`, a request commits before the next is checked, and a save, link, unlink or deletion is one
step (what the code does without the first is in section 6). `Namesakes = FALSE`: two notes do not share a title or an alias; with
namesakes a link goes to the oldest note, and links are not drawn anew when that one leaves. Redis is up and the process
does not die between a commit and its drop. Names are in lower case, as the keys are; embeds, counts, tags and creation times are left
out. Whether a save has changed the text is open unless its links or aliases changed (`Reworded`). A rename to the same title is left out; where the code takes the
oldest claimant of an alias the model, in which there is one, takes that. One reader fills at a time; a commit while it
reads makes what it holds wrong.

## 4. Runs

Deadlock is checked in provider_sync, where the beat never stops, and in no other run: those end when
their bounded keystrokes, requests, openings or steps are used up, which is how the real system comes to rest. Symmetry
is used only where no liveness property is checked.

| Run | Question | Bounds |
|---|---|---|
| collab_fanout | two workers open a note in every order, join, type, leave | 2 workers, 2 openings, 2 clients, 2 keystrokes, 2 leaves; three tokens are too large |
| collab_edits | keystrokes survive deaths, published or not, and failed or refused writes, and reach the row (liveness) | 2 workers already open, 2 of 3 keystrokes, one of them a paste over the limit, 1 death, 1 failed write |
| collab_reset | a REST save meets a live room | 2 workers open, 2 keystrokes, 1 save, 1 leave, 1 failed write |
| collab_crash | opening after a death (liveness) | 2 workers, 3 openings, 1 death, 1 leave, 1 keystroke |
| auth_tabs | racing tabs, logins, logouts, changes and resets | 2 browsers, 3 tabs, 3 sessions, 3 requests, 2 seconds, 1 reload or failed commit |
| note_save | autosave against other writers, with typing ahead and commits between commit and answer | 2 editors, 3 marks, 2 requests at a time, 1 version kept, 1 restore, rename or loss, before it 1 editor that closes; three marks are too large |
| note_settles | typed text reaches the server (liveness) | 1 editor, 3 marks, 2 requests at a time; three marks are too large |
| table_edit | typing, composing, commands and paste against a peer | 1 table of 2 rows and 1 column (what peers insert up to 3 by 2), 2 keys (a pipe, a dash), a clip with a delimiter row and a pipe, 1 peer change, 1 command or paste, up to 2 tables |
| workspace_tabs | windows, panes, histories and one record | 2 windows, 2 vaults, 4 notes, 6 steps, 3 history entries |
| ai_chat | turns, retries, deletions and broken streams | 1 panel and another device, 2 threads, 2 turns |
| provider_sync | the engine implements RecordMirror and catches up (liveness) | 2 workers, 2 records, 2 changes, 2 pages a run, 1 death, refusal or act of the person |
| vault_tree | paths, link rows and caches after any requests | 2 folders, 2 notes, 3 names, 3 texts, depth 3, 1 request at a time, 3 requests from a vault that has a note in a folder, with or without a folder above it; readers of both views |

The type invariants of CollabRoom, AuthSessions, NoteSave and VaultTree are proved (section 5) and not run again.

Why these bounds are enough to be of use. A collaboration hazard involves an actor and a peer: two workers
give every pair of roles (seeder and adopter, holder and asker, writer and saver), and three openings let
one worker come back after the other. Two keystrokes give one before and one after any event. The rotation has
two racers and one disturber: three requests. One version kept makes pruning happen on the second
snapshot. Three marks are two edits around one of another writer, or two conflicts in a row before an own edit lands; a third conflict in a row
needs a fourth mark and is an exception of KeystrokesStored. Two workers, two
changes and one event give a takeover of the lease, a page delivered again, a full walk after a lost cursor and
each act of the person inside a run; the safety properties of provider_sync were also run with two and three events.
One peer change and one command in table_edit give every pair of a local event and a change from elsewhere, the
pipe and the dash being the keys that mean something to the format; one column is what a single dash can make a delimiter row. Six steps in workspace_tabs fill a history of three
and go back, and let each window write after the other. Two turns are a turn and its retry, or two devices in one thread. In
vault_tree a folder above a folder above a note is the shallowest tree in which a path changes two levels down; three requests
after that are two changes and the save or creation that meets what they left, and the three texts link by title, by path and by alias.

Starting states. collab_edits and collab_reset start from rooms that have been open for a while
(`SteadyInit`), which is reachable from `Init` by opening both rooms; the auth runs start from a
browser signed in with one session, and auth_tabs also from the same browser just after a reload that
lost the answer of a rotation; vault_tree starts from a planted tree (`PlantedInit`), which two or three
creations reach.

Fairness. In CollabRoom each coroutine of each worker that can go on does (asyncio schedules ready tasks): the steps of an opening, the
teardown, the publishing tasks, the message loop and the persist loop have weak fairness of their own, and so have the lapse of a heartbeat and
of the persist lock; nothing makes anybody type, leave, die or fail. In NoteSave timers fire, the
server serves what it was sent and answers arrive; losing them is bounded by `MaxRare`, and KeystrokesStored
excuses itself when one was lost, and in the ways the code has: a third conflict in a row, an answer that counted the keystroke as
saved, the size limit. In ProviderSync the beat runs a scheduled connection again and again, a run that has not
died takes its next step, and a lease whose owner is gone expires; deaths and refusals are finite in number.
Nothing makes the person give back a note or resume. The other modules state no liveness.

What the passing runs show is listed with each run in `PROJECT.json`; every property there has a mutant, a
plausible bug in the code, that makes TLC report it.

## 5. Proofs

All theorems hold for every value of the constants that satisfies the modules' named assumptions: bounds are
natural numbers, every note has a vault and every tab a browser, and the value for "nothing" (`None`, `Nobody`, `NoSid`) is
none of the things it stands next to. Hypotheses beyond these are named below; they are the assumptions of section 3, and each is
the value the passing runs give that constant unless said otherwise.

**CollabRoomProofs.** Of the whole specification: `TypeCorrect`, `OneWriterHolds`, `SeedOutlivesRoomsHolds`, `ServedClientsHolds`.
Types are not inductive alone: that items named by a replica, a message or a seed exist needs the same of every place items come
from, so the invariant says it of all of them. OneWriter rests on WriterOwnsLock: whoever writes
owns the lock, which has one owner. SeedOutlivesRooms rests on HoldersKeepSeed, which says the same of a room being
torn down: only the release of the last listed holder removes the seed.

Of a steady room, `SteadyInit /\ [][Next]_vars` where nobody opens it anew (`MaxOpens = 0`) and no REST save comes
(`Save = {}`), with any number of workers, keystrokes, leaves, deaths and failed writes: `SteadyRoomConverges`, `SteadyRoomNeverStuck`,
`SteadyRoomShowsOnce` (where no keystroke is a token of the first text). The invariant is SteadyInv: an
item that its author has not published is in that author's outbox and nowhere else, and whatever was typed after it was typed there (Unheld, Authored);
every other item each open room has integrated, or holds back, or has in its queue (Fed), in whatever order the publishing tasks ran; and what a
replica has is closed under "its author had seen" (PlainDoc). So once everything is published and delivered an open replica has all items but
those that died with their worker, and those typed after one of them. Where besides nobody leaves (`MaxLeaves = 0`): `RowKeepsEditsHolds`, and
`SavedOrPendingHolds` if fewer die than there are workers. WriteInv says that the owner of the persist lock, or whoever may take it,
shows what is in the row (OwnerKnowsRow) and that a write under way carries it (WriteKnowsRow), apart from what died unpublished (Lapsed); and that what
a worker shows is in the row, or it is dirty, or writing it, or shows too much for any write (ShownIsKept). Openings, resets and departures are in the runs collab_fanout, collab_reset and
collab_crash, where these properties are model-checked only.

**AuthSessionsProofs.** `AuthTypeCorrect`, `SpentTokensResolveHolds`, `EndedStaysEndedHolds`, `EndedMeansRefusedHolds`. The inductive
invariant has two parts: a request that is rotating a row holds its lock (HeldRows), and every JTI belongs to
the session that it was issued for (RowsHoldTheirOwn). With them a rotation commits only on the row it found
alive, and the old JTI is in the grace set before the row forgets it. EndInv says of each request that ends sessions which of those it found are
already marked, and that no token and no mark is from the future; a token minted in the second of a mark is the hard case.

Of tabs that race: `NoFalseAlarmHolds` and `RacersConvergeHolds`, under `~Overtaking` and `MaxMishaps <= 1`, the values of auth_tabs, and
`RacersAreNoThieves`, which shows what the bound is for: any number of reloads and failed commits is harmless while no commit fails (`FailuresApart`) when
an abandoned refresh is still on its way. CalmInv is inductive. It follows each browser (Carried): a session lives in one browser, its refreshes
that tabs wait for carry one JTI, and a refresh that was abandoned, or that is next to the cookie, carries no later one. Of the rows it says that no
JTI is later than the current one of its session (CurrentIsLatest), that the grace set names the session each JTI was issued for (GraceIsTrue),
and that the JTI of a session being minted is known to its answer only (MintsArePrivate). Then every JTI a browser shows resolves
(ShownResolve), and a cookie that is spent, or that an abandoned refresh is about to spend, is brought up to date by a tab that loads or by an
answer that a tab waits for (ExposedIsRestored): a commit that fails there is what would break it.

**NoteSaveProofs.** `NoteTypeCorrect`, `AppendsLandHolds`, `RestoreIsReversibleHolds`. The invariant is
HolderKnowsTheRow: a job that holds the row lock and did not load the note before has exactly the row's text.
Appends then compose with the current text, and a restore snapshots the text that it replaces; pruning keeps
the newest version since at least one is kept. The linking calls are outside the invariant, and that is the
divergence note_stale_append shows. `KeystrokesKeptHolds` and `NoSilentOverwriteHolds` have no hypotheses: they hold while people type ahead of
their saves and others commit between a save's commit and its answer. Known says that the words of the row, of a
loaded content and of an answered save have been in the database, and that what an editor takes for saved has been there or was presumed.
Based says of every base, in an editor, in a request or in an answer, that it is no later than the row's stamp and that one equal to it which came with
its text vouches for the row: its words are in the draft (Vouches, KnowsRow).

**ProviderSyncProofs.** `SyncMirrored`, `SyncMadeOnce`, `SyncTyped`, under `~Overrun`: the engine implements the safety part of RecordMirror for
any number of workers, records, pages and events. The inductive invariant `IInv` adds to the types: at most one
run holds the lease, and the stream says so (Alone); a run about to write knows the note the row names, or the
row still is as it saw it (NotesKnown); pages and rows name changes there were, never newer than what a page brought (PagesKnown, RowsSeen); a
note in hand shows the version about to be recorded (NotesMade); and the notes of a record beyond the one its row knows
are paid for by deaths (Counted). `~Overrun` enters through Alone only.

**WorkspaceStoreProofs.** `VaultsApartHolds`: for any number of windows and vaults no window changes another vault's
layout. Every operation is an instance of `Keep` or leaves the record alone; the invariant is that the store and the
record are functions of all windows and vaults. `TypeOKHolds`, `BackAndForthHolds`, `CursorFollowsHolds`, under `~Overtaken`, for strips and
histories of any length: WorkspaceInv says of every layout, stored ones too since each can come back on screen, what TypeOK
says, and that neighbours in a history differ, without which Back could show the tab that it leaves; and that a note asked for belongs to the
vault its window shows, where `~Overtaken` enters. What an older build left need only be `OldLayout`: the proof is that `merge` puts it in order. The
lemmas go from lists (a tab removed, replaced, inserted, the pinned first) through SyncedOK, what `syncedHistory` makes of a history whose repetitions are
dropped, to panes and layouts, one for each operation.

**AssistantChatProofs.** `TypeOKHolds`, `WholeTurnsHolds`, `AtRestHolds`, with no hypotheses. ChatInv says of the server that a stored thread is made of whole
turns, each in it for as long as it is stored; of a panel, that what it has in its cache was such a thread once, that it lacks a turn it was
answered in only while that thread is stale or being fetched, and that its local copy holds no more than the question it waits for unless a
refetch that will clear it is on its way. What a history without one of its threads holds comes from PickedRight (see below).

**VaultTreeProofs.** `PathsFollowHolds`, `TargetsBearTheNameHolds`, `VaultTypeCorrect`, under `~Overlap`, for any tree and
also where notes share names. That a path is its place in the tree is inductive with two additions: a request's plan is still valid when it commits (Fresh,
where `~Overlap` enters), and a folder is never moved below itself by path (Fits), since the rewriting goes by prefix
while the tree is given by ids. The core is RecomputedFollows: what the prefix finds is what lies below, and its new path is again
its place. The lemmas before it say what `Moved` and `Under` do to sequences. For the links the invariant is Among: a resolved row
names its target, through each of the piecemeal claims and releases. `LinksAsResavedHolds` adds `~Namesakes`: then the oldest claimant of a key is
its only one, and each operation leaves every link as a fresh save would draw it. `CachesCurrentHolds` has no hypothesis: however requests
overlap, a view that is wrong is about to be dropped by a request that has committed, or was stored by an overtaken reader. Wrong is what
differs in a folder, a note, a path or a link; a view that is only dated is not, and vault_dates shows that saves leave such ones.

**TableWidgetProofs.** `TypesHold`, `FocusFollowsRowHolds`, with no hypotheses, for any alphabet, tables of any size, any clipboards and any number
of changes. ShapeInv is inductive: the tables are rectangular, hold trimmed source and no row that the parser skips, no bare pipe is in it, each widget has a cell on screen
for each cell of its table, and focus and compositions are at places that exist. The work is in the operators: that
`Escape` leaves no pipe and `Unescape` undoes it, that a cell without a pipe parses to one cell (OneCell), that every row and column
command and a paste of any clipboard makes a sheet of a table (EditHolds, PastedTable) of which parsing makes a table again, and where each leaves its caret.

`DomAgreesHolds`, `TypingIsMinimalHolds`, `KeysShowHolds`: what is on screen is the document. ViewInv adds that outside a composition the screens
are exactly what a fresh render of the document would be, with the focused cell in its markdown (`Screens`), and that during one only the focused
cell is apart. UpdatedView says it of any update, kept or rebuilt widgets alike; the rest are its instances. `KeysShowHolds` is
the positive side of table_typing and table_dash (section 6): a key shows after the text that was there if it is composed, or if it is no space and its row does
not come to look like a delimiter. `TypingIsMinimal` says what happens otherwise: that row is read no more, and nothing else changes.
These three have two hypotheses. `EndHeard = TRUE` is the assumption of section 3. `EndsApart` sets aside one step: a composition that ends
with the text that the document has by then, although it began with another. `commit` finds nothing to write and `dataset.src`
stays behind, so ViewInv is not inductive through it, and table_same_key makes TLC show it. In table_edit no such step exists, since the
peer's key is not the person's; TLC checked that, and ViewInv, as invariants of that instance before they were proved.

**PickedRight**, in WorkspaceStoreProofs and again in AssistantChatProofs: `Picked` returns, of every sequence, the entries at the chosen positions, in order.
It is defined by rank (the k-th entry is the one that has k - 1 chosen positions before it), since the library's filters
(`SelectSeq`, `SetToSortSeq`) are recursive and the provers cannot see into them. The provers take no induction theorem whose parameter is an
operator; where a proof needs a least number it takes it from the well-foundedness of `<`, which is a statement about sets.

**Only model-checked**: liveness (EditsAreSaved, JoinersAreServed, KeystrokesStored, CatchesUp), because TLAPS does not
prove ENABLED; of CollabRoom, convergence in rooms that are opened, reset or left. Every invariant and action property of the other
modules' runs is proved. No recursive operator is used.

## 6. Where the code and its documentation differ

A configuration that makes TLC show it is beside the modules; none of them is a run.

| Configuration | Property | What happens |
|---|---|---|
| note_lost_keystrokes | NoKeystrokesClobbered | a save's success marks the draft of that moment as saved (`editor-pane.tsx:228`); keystrokes typed meanwhile are lost to a conflict (against 138-141 and 332-336) |
| note_overtaken | OnlyConflictsOverwrite | `db.refresh` runs after the commit has released the row (`note_service.py:328-329`): the answer carries the timestamp of a writer that came in between, and the editor's next save overwrites that text silently, against the docstring at 287-291 |
| collab_empty_seed | NoStuckUpdates | all seeds of an empty note are the same bytes, so a late joiner takes itself for the first and never asks what was typed (`collab.py:253`) |
| collab_too_large | NoLostKeystrokes | a write refused as too large is only logged (`collab.py:542-543`): the room is clean, nobody writes its text or says so, against `docs/collab.md:45-46`, "no lost keystrokes" |
| collab_save_lost | SaveWins | a periodic write sampled before a REST save commits after it (`collab.py:533`) |
| auth_logout_race | LogoutEndsSession | a logout that presents a JTI spent by a refresh in flight finds no session and ends none (`auth_service.py:235`) |
| note_stale_append | LinksLand | linking composes with the text it loaded before the lock (`link_service.py:275`) |
| table_typing | KeystrokesLand | a space typed at the end of a cell is trimmed away and the next word joins the last (`table-widget.ts:237`, against its lines 4-6) |
| table_dash | KeystrokesLand | a dash typed in an empty row of one column makes its line look like the one under the header: the row is skipped (`table-widget.ts:85-88`, `table-commands.ts:63-67`), vanishes with focus in it, and the next command on the table deletes it |
| table_same_key | DomAgrees | a composition that ends with the text a peer has meanwhile written in its cell commits nothing, and the cell goes on with the source it saw before: it shows the stale text when focus leaves it (`table-widget.ts:272`, `455`), until the next change to its table |
| ai_silent_write | ChangesShown | tools commit, the turn then fails: the note stays and no message names it (`ai_service.py:603`, against `ai-chat-pane.tsx:300`) |
| sync_marker_back | PicksUpAgain | a version turned away while the marker was missing is not sent again when it is back (`provider_sync_service.py:428`, against 425-427) |
| vault_dates | TimesCurrent | a save changes the `updated_at` that the cached tree shows (`vault_service.py:142`, `177-178`) and drops only the graph (`note_service.py:330`), so the explorer sorts by old times (`file-explorer.tsx:85-105`) until the TTL or the next structural change |
| vault_overlap | PathsFollow | a folder created under one that is being renamed keeps the old path for good (`folder_service.py:77`, `117`) |
| vault_namesake | NamesAreTheirs | an alias only one note claims may be another note's title, and linking by it acts on that note (`link_service.py:217`, against 207-208) |

Met while modelling, excluded by the named assumptions, and worth a look:

- Rooms: whoever opens within 12 s of a death keeps the dead worker's seed, since 8 s of catch-up end before
  the heartbeat lapses, though `collab.py:15-18` says the row wins. The final write of a worker that is not the
  owner can take a keystroke back (`collab.py:514-517` calls it harmless). An opener that read the row before
  another worker's final write seeds from the older text (`collab.py:172`). A second client that joins
  during initialisation types before the observer is registered (`collab.py:158`, `207`). Any update on the
  channel ends the catch-up (`collab.py:423`). Of two saves with the same body the second may be skipped
  (`collab.py:468`). A tick that snapshotted the states goes on with a room torn down (`collab.py:560`). A REST
  save during initialisation on the same worker doubles the text. `restore_version` does not reset
  live rooms, though `docs/collab.md:45-48` says restores do.
- Sessions: with `Overtaking`, an answer to an older cookie can overwrite a newer one and RacersConverge
  fails, though `auth_service.py:162` says the browser is never left with a token that dies. A lost answer and no
  retry within 30 s end all sessions. A login that checked the old password may mint after
  `change_password` has listed what to end. With two mishaps RacersConverge fails in one way (`MaxMishaps = 2`): a reload orphans a
  refresh that has been sent, the page's own refresh fails in its commit and leaves the tab signed out with the old cookie, and then the orphan
  rotates the session with nobody to take its answer: a spent JTI, and a false alarm once its grace is over. It is the only way, for any
  number of mishaps (`RacersAreNoThieves`). auth_tabs allows one mishap.
- Notes: a save that is refused as too large makes the editor fetch, and nothing tells the person (`editor-pane.tsx:253`). After a third conflict in a row the editor is
  refused until it is reopened (`editor-pane.tsx:238`). The save sent when a pane closes ignores a 409. A GET
  that read before a save may be answered after it. `daily_note_service.py:131` and tools of the
  assistants load before they lock, as linking does.
- Sync: `release_stream` frees the lease of whoever has it, so with `Overrun` a run that outlived its lease lets a
  third in, and MadeOncePerCut fails. A death between the commits of note and mapping makes the note twice, against the module's
  "exactly once"; that is what MadeOncePerCut counts. A record whose note cannot be created is skipped for good, since the
  cursor moves on, though the comment at `provider_sync_service.py:447` fears the opposite. A pause between `_paused_meanwhile`
  and the commit is overwritten when the run had loaded `transient_broken`. A mapping for a note deleted in between
  violates its foreign key and ends the run (Orphaned). Tombstones set `deleted_at`, which nothing reads.
- Workspace: with `Overtaken`, a late answer opens a note of one vault in the layout of another. `splitWithTab` leaves the old pane's
  history as it was; a tab opened in the background in an empty pane is not recorded; closing the last tab after an
  in-place navigation leaves an entry Back cannot reach; a history entry keeps the `pinned` of its time and re-opens so. A
  deleted note that is pinned stays (`closeTab`). Collapsed folders are overwritten by the other window.
  `setActiveVault` skips the clean-up of `merge`. A history is cut to fifty entries where a tab is recorded, not where it is put in step with
  the tabs that are left (`workspace-store.ts:88-113`), so it can grow past fifty one entry at a time.
- Tables: typing in a cell that its row lacks is dropped (`table-widget.ts:269`). A peer's text in a cell under composition is
  overwritten at its end. Without `EndHeard` a composition whose cell is rebuilt leaves the widget deaf. The buttons of one table use the row and
  column of a cell focused in another (`table-widget.ts:388`). A table inserted above hands focus to another table's
  node.
- Assistant: a stream that breaks after the commit hands the question back though it is stored, against the comment "Nothing was stored"
  (`ai-chat-pane.tsx:152`), over whatever was typed since. A late refetch wipes the local copy of the next question.
  The answer to a turn pulls the selection back to its thread. A question sent before the list has loaded starts a new thread.
- Vaults: two moves checked together can put each folder into the other; `get_tree` then never lists them. A move checks
  only the depth of the folder itself (`folder_service.py:176`). A save with a `[[link]]` while its target is being created leaves the
  link a ghost (`link_service.py:85`). Renaming a note whose old title is also one of its aliases leaves links to the old title
  ghosts, and so do links whose namesake was renamed or deleted, until their note is saved. The import records no aliases
  (`vault_io_service.py:246-250`).  A reader overtaken by a commit stores
  what it read after the drop; it stays until the next write or the TTL.

## 7. What is not modelled

Redis outages (every component then degrades on its own path), presence in rooms, `shutdown()` with
clients attached, a client leaving before its room has opened, deletion of a note under a live room; sign-up,
session expiry, disabled and deleted accounts; unguarded replaces, prepend and `transform_content` (same lock as
append), tags, two panes of one tab; `ensure_folder_path`, the limit of notes per vault, the import's own link resolution; several streams of a connection, people links and settings of a sync, backoff times; caret positions inside a
cell, alignment and undo grouping of tables; titles and view modes of tabs; the rounds and words of an assistant's turn.
Components with no module are listed in `PROJECT.json` with the reason: planned (section 2), input and
output, rendering, or a single statement.

Most of the client's lines stay outside: the graph view draws and lays out a picture with numeric forces, the settings,
explorer, import and sync dialogs are forms over single requests, `content/` is text of the site, and the editor's
decorations are a function of the document. There is no state there that two actors share, or none that a property could be
about but its wording or its look. The models cover the client where it keeps state of its own across
answers: sessions, autosave, tables, tabs and the assistant.

## 8. Running it

`tlc -workers 2 -config collab_fanout.cfg MCCollabRoom` for a run (the `MC` module is the one of the
component), `tlapm CollabRoomProofs.tla` for the proofs. The passing runs take between ten seconds and three
minutes each, the proofs a few minutes.
